---------------------------- MODULE Spec2Model ----------------------------
(***************************************************************************)
(* A model of the bible-io crate: the Bible / Book / Chapter / Verse       *)
(* aggregate (src/src/bible.rs, book.rs, chapter.rs, verse.rs), the book   *)
(* identity enumeration (bible_books_enum.rs) and the inverted search      *)
(* index (search_index.rs).                                                *)
(*                                                                         *)
(* A Rust String is modelled as a sequence of one-character strings, so    *)
(* that lowercasing, trimming, splitting, tokenizing and integer parsing   *)
(* are computed character by character as the code computes them.          *)
(***************************************************************************)
EXTENDS Integers, Sequences, FiniteSets, TLC

(***************************************************************************)
(* Bounds of the model.                                                    *)
(***************************************************************************)
MaxBooks == 2      \* books in a loaded mapping
MaxChapters == 2   \* chapters of a book
MaxVerses == 2     \* verses of a chapter
MaxLen == 4        \* characters of a text handed to tokenize or Verse::new
MaxCallers == 2    \* callers of Bible::search on one Bible

(***************************************************************************)
(* Characters and the std string functions the crate uses.                 *)
(***************************************************************************)
UpperSeq ==
  <<"A","B","C","D","E","F","G","H","I","J","K","L","M",
    "N","O","P","Q","R","S","T","U","V","W","X","Y","Z">>

LowerSeq ==
  <<"a","b","c","d","e","f","g","h","i","j","k","l","m",
    "n","o","p","q","r","s","t","u","v","w","x","y","z">>

DigitSeq == <<"0","1","2","3","4","5","6","7","8","9">>

Range(s) == { s[i] : i \in DOMAIN s }

\* char::to_ascii_lowercase: 'A'..'Z' map to 'a'..'z', every other char to itself
AsciiLowerMap ==
  [c \in Range(UpperSeq) |-> LowerSeq[CHOOSE i \in DOMAIN UpperSeq : UpperSeq[i] = c]]

\* char::to_ascii_uppercase
AsciiUpperMap ==
  [c \in Range(LowerSeq) |-> UpperSeq[CHOOSE i \in DOMAIN LowerSeq : LowerSeq[i] = c]]

\* the value of an ASCII digit
DigitValue ==
  [c \in Range(DigitSeq) |-> (CHOOSE i \in DOMAIN DigitSeq : DigitSeq[i] = c) - 1]

to_ascii_lowercase_char(c) == IF c \in DOMAIN AsciiLowerMap THEN AsciiLowerMap[c] ELSE c

to_ascii_uppercase_char(c) == IF c \in DOMAIN AsciiUpperMap THEN AsciiUpperMap[c] ELSE c

\* str::to_ascii_lowercase
to_ascii_lowercase(s) == [i \in DOMAIN s |-> to_ascii_lowercase_char(s[i])]

\* str::to_ascii_uppercase
to_ascii_uppercase(s) == [i \in DOMAIN s |-> to_ascii_uppercase_char(s[i])]

\* str::eq_ignore_ascii_case
eq_ignore_ascii_case(s, t) == to_ascii_lowercase(s) = to_ascii_lowercase(t)

\* char::is_alphanumeric: the letters outside ASCII count as well
is_alphanumeric(c) ==
  c \in DOMAIN AsciiLowerMap \/ c \in DOMAIN AsciiUpperMap \/ c \in DOMAIN DigitValue
    \/ c = "é"

\* char::is_ascii_alphanumeric
is_ascii_alphanumeric(c) ==
  c \in DOMAIN AsciiLowerMap \/ c \in DOMAIN AsciiUpperMap \/ c \in DOMAIN DigitValue

\* char::is_whitespace, over the characters of the model
is_whitespace(c) == c \in {" ", "\t", "\n"}

RECURSIVE trim_start(_)
trim_start(s) ==
  IF s # <<>> /\ is_whitespace(Head(s)) THEN trim_start(Tail(s)) ELSE s

RECURSIVE trim_end(_)
trim_end(s) ==
  IF s # <<>> /\ is_whitespace(s[Len(s)]) THEN trim_end(SubSeq(s, 1, Len(s) - 1)) ELSE s

\* str::trim
trim(s) == trim_end(trim_start(s))

None == [some |-> FALSE]

Some(v) == [some |-> TRUE, val |-> v]

\* split at the first occurrence of ch instead of the last
split_once(s, ch) ==
  LET hits == { i \in DOMAIN s : s[i] = ch }
  IN  IF hits = {} THEN None
      ELSE LET i == CHOOSE k \in hits : \A j \in hits : k <= j
           IN  Some(<<SubSeq(s, 1, i - 1), SubSeq(s, i + 1, Len(s))>>)

\* str::rsplit_once(ch): split at the last occurrence of ch
rsplit_once(s, ch) ==
  LET hits == { i \in DOMAIN s : s[i] = ch }
  IN  IF hits = {} THEN None
      ELSE LET k == CHOOSE i \in hits : \A j \in hits : j <= i
           IN  Some(<<SubSeq(s, 1, k - 1), SubSeq(s, k + 1, Len(s))>>)

RECURSIVE DigitsValue(_)
DigitsValue(ds) ==
  IF ds = <<>> THEN 0
  ELSE 10 * DigitsValue(SubSeq(ds, 1, Len(ds) - 1)) + DigitValue[ds[Len(ds)]]

\* <usize as FromStr>::from_str: an optional '+', then one or more ASCII digits
\* (the strings of the model are far too short to overflow usize)
parse_usize(s) ==
  LET ds == IF s # <<>> /\ Head(s) = "+" THEN Tail(s) ELSE s
  IN  IF ds # <<>> /\ \A i \in DOMAIN ds : ds[i] \in Range(DigitSeq)
      THEN Some(DigitsValue(ds))
      ELSE None

(***************************************************************************)
(* bible_books_enum.rs: the 83 book identities, in declaration order.      *)
(***************************************************************************)
BibleBook ==
  <<
    "Genesis", "Exodus", "Leviticus", "Numbers", "Deuteronomy", "Joshua", "Judges", "Ruth",
    "FirstSamuel", "SecondSamuel", "FirstKings", "SecondKings", "FirstChronicles",
    "SecondChronicles", "Ezra", "Nehemiah", "Esther", "Job", "Psalms", "Proverbs",
    "Ecclesiastes", "SongOfSolomon", "Isaiah", "Jeremiah", "Lamentations", "Ezekiel", "Daniel",
    "Hosea", "Joel", "Amos", "Obadiah", "Jonah", "Micah", "Nahum", "Habakkuk", "Zephaniah",
    "Haggai", "Zechariah", "Malachi", "Matthew", "Mark", "Luke", "John", "Acts", "Romans",
    "FirstCorinthians", "SecondCorinthians", "Galatians", "Ephesians", "Philippians",
    "Colossians", "FirstThessalonians", "SecondThessalonians", "FirstTimothy", "SecondTimothy",
    "Titus", "Philemon", "Hebrews", "James", "FirstPeter", "SecondPeter", "FirstJohn",
    "SecondJohn", "ThirdJohn", "Jude", "Revelation", "Tobit", "Judith", "Wisdom", "Sirach",
    "Baruch", "FirstMaccabees", "SecondMaccabees", "EstherAdditions", "DanielSongOfThree",
    "DanielSusanna", "DanielBelAndTheDragon", "FirstEsdras", "SecondEsdras",
    "PrayerOfManasseh", "Psalm151", "ThirdMaccabees", "FourthMaccabees"
  >>

AsStrTable ==
  <<
    << "Genesis", <<"g","n">> >>, << "Exodus", <<"e","x">> >>, << "Leviticus", <<"l","v">> >>,
    << "Numbers", <<"n","m">> >>, << "Deuteronomy", <<"d","t">> >>,
    << "Joshua", <<"j","s">> >>, << "Judges", <<"j","u","d">> >>, << "Ruth", <<"r","t">> >>,
    << "FirstSamuel", <<"1","s","m">> >>, << "SecondSamuel", <<"2","s","m">> >>,
    << "FirstKings", <<"1","k","g","s">> >>, << "SecondKings", <<"2","k","g","s">> >>,
    << "FirstChronicles", <<"1","c","h">> >>, << "SecondChronicles", <<"2","c","h">> >>,
    << "Ezra", <<"e","z","r">> >>, << "Nehemiah", <<"n","e">> >>, << "Esther", <<"e","t">> >>,
    << "Job", <<"j","o","b">> >>, << "Psalms", <<"p","s">> >>,
    << "Proverbs", <<"p","r","v">> >>, << "Ecclesiastes", <<"e","c">> >>,
    << "SongOfSolomon", <<"s","o">> >>, << "Isaiah", <<"i","s">> >>,
    << "Jeremiah", <<"j","r">> >>, << "Lamentations", <<"l","m">> >>,
    << "Ezekiel", <<"e","z">> >>, << "Daniel", <<"d","n">> >>, << "Hosea", <<"h","o">> >>,
    << "Joel", <<"j","l">> >>, << "Amos", <<"a","m">> >>, << "Obadiah", <<"o","b">> >>,
    << "Jonah", <<"j","n">> >>, << "Micah", <<"m","i">> >>, << "Nahum", <<"n","a">> >>,
    << "Habakkuk", <<"h","k">> >>, << "Zephaniah", <<"z","p">> >>, << "Haggai", <<"h","g">> >>,
    << "Zechariah", <<"z","c">> >>, << "Malachi", <<"m","l">> >>, << "Matthew", <<"m","t">> >>,
    << "Mark", <<"m","k">> >>, << "Luke", <<"l","k">> >>, << "John", <<"j","o">> >>,
    << "Acts", <<"a","c","t">> >>, << "Romans", <<"r","m">> >>,
    << "FirstCorinthians", <<"1","c","o">> >>, << "SecondCorinthians", <<"2","c","o">> >>,
    << "Galatians", <<"g","l">> >>, << "Ephesians", <<"e","p","h">> >>,
    << "Philippians", <<"p","h">> >>, << "Colossians", <<"c","l">> >>,
    << "FirstThessalonians", <<"1","t","s">> >>, << "SecondThessalonians", <<"2","t","s">> >>,
    << "FirstTimothy", <<"1","t","m">> >>, << "SecondTimothy", <<"2","t","m">> >>,
    << "Titus", <<"t","t">> >>, << "Philemon", <<"p","h","m">> >>,
    << "Hebrews", <<"h","b">> >>, << "James", <<"j","m">> >>,
    << "FirstPeter", <<"1","p","e">> >>, << "SecondPeter", <<"2","p","e">> >>,
    << "FirstJohn", <<"1","j","o">> >>, << "SecondJohn", <<"2","j","o">> >>,
    << "ThirdJohn", <<"3","j","o">> >>, << "Jude", <<"j","d">> >>,
    << "Revelation", <<"r","e">> >>, << "Tobit", <<"t","b">> >>,
    << "Judith", <<"j","d","t">> >>, << "Wisdom", <<"w","s">> >>,
    << "Sirach", <<"s","i","r">> >>, << "Baruch", <<"b","a","r">> >>,
    << "FirstMaccabees", <<"1","m","c">> >>, << "SecondMaccabees", <<"2","m","c">> >>,
    << "EstherAdditions", <<"e","t","g">> >>, << "DanielSongOfThree", <<"d","n","3">> >>,
    << "DanielSusanna", <<"d","n","s">> >>, << "DanielBelAndTheDragon", <<"d","n","b">> >>,
    << "FirstEsdras", <<"1","e","s">> >>, << "SecondEsdras", <<"2","e","s">> >>,
    << "PrayerOfManasseh", <<"p","m","n">> >>, << "Psalm151", <<"p","s","1","5","1">> >>,
    << "ThirdMaccabees", <<"3","m","c">> >>, << "FourthMaccabees", <<"4","m","c">> >>
  >>

FromStrTable ==
  <<
    << <<"g","n">>, "Genesis" >>, << <<"e","x">>, "Exodus" >>, << <<"l","v">>, "Leviticus" >>,
    << <<"n","m">>, "Numbers" >>, << <<"d","t">>, "Deuteronomy" >>,
    << <<"j","s">>, "Joshua" >>, << <<"j","u","d">>, "Judges" >>, << <<"r","t">>, "Ruth" >>,
    << <<"1","s","m">>, "FirstSamuel" >>, << <<"2","s","m">>, "SecondSamuel" >>,
    << <<"1","k","g","s">>, "FirstKings" >>, << <<"2","k","g","s">>, "SecondKings" >>,
    << <<"1","c","h">>, "FirstChronicles" >>, << <<"2","c","h">>, "SecondChronicles" >>,
    << <<"e","z","r">>, "Ezra" >>, << <<"n","e">>, "Nehemiah" >>, << <<"e","t">>, "Esther" >>,
    << <<"j","o","b">>, "Job" >>, << <<"p","s">>, "Psalms" >>,
    << <<"p","r","v">>, "Proverbs" >>, << <<"e","c">>, "Ecclesiastes" >>,
    << <<"s","o">>, "SongOfSolomon" >>, << <<"i","s">>, "Isaiah" >>,
    << <<"j","r">>, "Jeremiah" >>, << <<"l","m">>, "Lamentations" >>,
    << <<"e","z">>, "Ezekiel" >>, << <<"d","n">>, "Daniel" >>, << <<"h","o">>, "Hosea" >>,
    << <<"j","l">>, "Joel" >>, << <<"a","m">>, "Amos" >>, << <<"o","b">>, "Obadiah" >>,
    << <<"j","n">>, "Jonah" >>, << <<"m","i">>, "Micah" >>, << <<"n","a">>, "Nahum" >>,
    << <<"h","k">>, "Habakkuk" >>, << <<"z","p">>, "Zephaniah" >>, << <<"h","g">>, "Haggai" >>,
    << <<"z","c">>, "Zechariah" >>, << <<"m","l">>, "Malachi" >>, << <<"m","t">>, "Matthew" >>,
    << <<"m","k">>, "Mark" >>, << <<"l","k">>, "Luke" >>, << <<"j","o">>, "John" >>,
    << <<"a","c","t">>, "Acts" >>, << <<"r","m">>, "Romans" >>,
    << <<"1","c","o">>, "FirstCorinthians" >>, << <<"2","c","o">>, "SecondCorinthians" >>,
    << <<"g","l">>, "Galatians" >>, << <<"e","p","h">>, "Ephesians" >>,
    << <<"p","h">>, "Philippians" >>, << <<"c","l">>, "Colossians" >>,
    << <<"1","t","s">>, "FirstThessalonians" >>, << <<"2","t","s">>, "SecondThessalonians" >>,
    << <<"1","t","m">>, "FirstTimothy" >>, << <<"2","t","m">>, "SecondTimothy" >>,
    << <<"t","t">>, "Titus" >>, << <<"p","h","m">>, "Philemon" >>,
    << <<"h","b">>, "Hebrews" >>, << <<"j","m">>, "James" >>,
    << <<"1","p","e">>, "FirstPeter" >>, << <<"2","p","e">>, "SecondPeter" >>,
    << <<"1","j","o">>, "FirstJohn" >>, << <<"2","j","o">>, "SecondJohn" >>,
    << <<"3","j","o">>, "ThirdJohn" >>, << <<"j","d">>, "Jude" >>,
    << <<"r","e">>, "Revelation" >>, << <<"t","b">>, "Tobit" >>,
    << <<"j","d","t">>, "Judith" >>, << <<"w","s">>, "Wisdom" >>,
    << <<"s","i","r">>, "Sirach" >>, << <<"b","a","r">>, "Baruch" >>,
    << <<"1","m","c">>, "FirstMaccabees" >>, << <<"2","m","c">>, "SecondMaccabees" >>,
    << <<"e","t","g">>, "EstherAdditions" >>, << <<"d","n","3">>, "DanielSongOfThree" >>,
    << <<"d","n","s">>, "DanielSusanna" >>, << <<"d","n","b">>, "DanielBelAndTheDragon" >>,
    << <<"1","e","s">>, "FirstEsdras" >>, << <<"2","e","s">>, "SecondEsdras" >>,
    << <<"p","m","n">>, "PrayerOfManasseh" >>, << <<"p","s","1","5","1">>, "Psalm151" >>,
    << <<"3","m","c">>, "ThirdMaccabees" >>, << <<"4","m","c">>, "FourthMaccabees" >>
  >>

ALT_ABBREVS ==
  <<
    << <<"g","e","n">>, "Genesis" >>, << <<"g","e">>, "Genesis" >>,
    << <<"e","x","o">>, "Exodus" >>, << <<"e","x","o","d">>, "Exodus" >>,
    << <<"l","e","v">>, "Leviticus" >>, << <<"l","e">>, "Leviticus" >>,
    << <<"n","u","m">>, "Numbers" >>, << <<"n","u">>, "Numbers" >>,
    << <<"d","e","u","t">>, "Deuteronomy" >>, << <<"d","e","u">>, "Deuteronomy" >>,
    << <<"j","o","s">>, "Joshua" >>, << <<"j","o","s","h">>, "Joshua" >>,
    << <<"j","d","g">>, "Judges" >>, << <<"j","u","d","g">>, "Judges" >>,
    << <<"r","u","t">>, "Ruth" >>, << <<"r","u">>, "Ruth" >>,
    << <<"1","s","a">>, "FirstSamuel" >>, << <<"1","s","a","m">>, "FirstSamuel" >>,
    << <<"2","s","a">>, "SecondSamuel" >>, << <<"2","s","a","m">>, "SecondSamuel" >>,
    << <<"1","k","i">>, "FirstKings" >>, << <<"1","k","i","n","g","s">>, "FirstKings" >>,
    << <<"2","k","i">>, "SecondKings" >>, << <<"2","k","i","n","g","s">>, "SecondKings" >>,
    << <<"1","c","h">>, "FirstChronicles" >>, << <<"1","c","h","r">>, "FirstChronicles" >>,
    << <<"2","c","h">>, "SecondChronicles" >>, << <<"2","c","h","r">>, "SecondChronicles" >>,
    << <<"e","z","r">>, "Ezra" >>, << <<"e","z","r","a">>, "Ezra" >>,
    << <<"n","e","h">>, "Nehemiah" >>, << <<"n","e">>, "Nehemiah" >>,
    << <<"e","s","t">>, "Esther" >>, << <<"e","s","t","h">>, "Esther" >>,
    << <<"j","o","b">>, "Job" >>, << <<"j","b">>, "Job" >>, << <<"p","s","a">>, "Psalms" >>,
    << <<"p","s","a","l","m">>, "Psalms" >>, << <<"p","s","a","l","m","s">>, "Psalms" >>,
    << <<"p","r","o">>, "Proverbs" >>, << <<"p","r","o","v">>, "Proverbs" >>,
    << <<"e","c","c">>, "Ecclesiastes" >>, << <<"e","c","c","l">>, "Ecclesiastes" >>,
    << <<"s","o","s">>, "SongOfSolomon" >>, << <<"s","o","n","g">>, "SongOfSolomon" >>,
    << <<"s","o","n","g","o","f","s","o","n","g","s">>, "SongOfSolomon" >>,
    << <<"i","s","a">>, "Isaiah" >>, << <<"j","e","r">>, "Jeremiah" >>,
    << <<"l","a","m">>, "Lamentations" >>, << <<"e","z","e","k">>, "Ezekiel" >>,
    << <<"e","z","e">>, "Ezekiel" >>, << <<"d","a","n">>, "Daniel" >>,
    << <<"d","a">>, "Daniel" >>, << <<"h","o","s">>, "Hosea" >>, << <<"j","o","e">>, "Joel" >>,
    << <<"a","m","o">>, "Amos" >>, << <<"o","b","a">>, "Obadiah" >>,
    << <<"o","b","a","d">>, "Obadiah" >>, << <<"j","o","n">>, "Jonah" >>,
    << <<"j","n","h">>, "Jonah" >>, << <<"m","i","c">>, "Micah" >>,
    << <<"n","a","h">>, "Nahum" >>, << <<"h","a","b">>, "Habakkuk" >>,
    << <<"z","e","p">>, "Zephaniah" >>, << <<"z","e","p","h">>, "Zephaniah" >>,
    << <<"h","a","g">>, "Haggai" >>, << <<"z","e","c">>, "Zechariah" >>,
    << <<"z","e","c","h">>, "Zechariah" >>, << <<"m","a","l">>, "Malachi" >>,
    << <<"m","a","t">>, "Matthew" >>, << <<"m","a","t","t">>, "Matthew" >>,
    << <<"m","a","r">>, "Mark" >>, << <<"m","r","k">>, "Mark" >>,
    << <<"l","u","k">>, "Luke" >>, << <<"l","u","k","e">>, "Luke" >>,
    << <<"j","o","h","n">>, "John" >>, << <<"j","h","n">>, "John" >>,
    << <<"j","n">>, "John" >>, << <<"a","c","t","s">>, "Acts" >>, << <<"a","c">>, "Acts" >>,
    << <<"r","o","m">>, "Romans" >>, << <<"1","c","o">>, "FirstCorinthians" >>,
    << <<"1","c","o","r">>, "FirstCorinthians" >>, << <<"2","c","o">>, "SecondCorinthians" >>,
    << <<"2","c","o","r">>, "SecondCorinthians" >>, << <<"g","a","l">>, "Galatians" >>,
    << <<"e","p","h">>, "Ephesians" >>, << <<"p","h","i","l">>, "Philippians" >>,
    << <<"p","h","p">>, "Philippians" >>, << <<"c","o","l">>, "Colossians" >>,
    << <<"1","t","h">>, "FirstThessalonians" >>,
    << <<"1","t","h","e","s">>, "FirstThessalonians" >>,
    << <<"2","t","h">>, "SecondThessalonians" >>,
    << <<"2","t","h","e","s">>, "SecondThessalonians" >>,
    << <<"1","t","i">>, "FirstTimothy" >>, << <<"1","t","i","m">>, "FirstTimothy" >>,
    << <<"2","t","i">>, "SecondTimothy" >>, << <<"2","t","i","m">>, "SecondTimothy" >>,
    << <<"t","i","t">>, "Titus" >>, << <<"p","h","m">>, "Philemon" >>,
    << <<"p","h","l","m">>, "Philemon" >>,
    << <<"p","h","i","l","e","m","o","n">>, "Philemon" >>, << <<"h","e","b">>, "Hebrews" >>,
    << <<"j","a","s">>, "James" >>, << <<"j","a","m">>, "James" >>,
    << <<"1","p","e">>, "FirstPeter" >>, << <<"1","p","e","t">>, "FirstPeter" >>,
    << <<"2","p","e">>, "SecondPeter" >>, << <<"2","p","e","t">>, "SecondPeter" >>,
    << <<"1","j","n">>, "FirstJohn" >>, << <<"1","j","o","h">>, "FirstJohn" >>,
    << <<"2","j","n">>, "SecondJohn" >>, << <<"2","j","o","h">>, "SecondJohn" >>,
    << <<"3","j","n">>, "ThirdJohn" >>, << <<"3","j","o","h">>, "ThirdJohn" >>,
    << <<"j","u","d">>, "Jude" >>, << <<"j","u","d","e">>, "Jude" >>,
    << <<"r","e","v">>, "Revelation" >>,
    << <<"r","e","v","e","l","a","t","i","o","n">>, "Revelation" >>,
    << <<"t","o","b">>, "Tobit" >>, << <<"j","d","t">>, "Judith" >>,
    << <<"w","i","s">>, "Wisdom" >>, << <<"s","i","r">>, "Sirach" >>,
    << <<"b","a","r">>, "Baruch" >>, << <<"1","m","a","c">>, "FirstMaccabees" >>,
    << <<"2","m","a","c">>, "SecondMaccabees" >>, << <<"e","s","t","g">>, "EstherAdditions" >>,
    << <<"a","d","d","e","s","t","h">>, "EstherAdditions" >>,
    << <<"d","a","n","3">>, "DanielSongOfThree" >>, << <<"s","u","s">>, "DanielSusanna" >>,
    << <<"b","e","l">>, "DanielBelAndTheDragon" >>, << <<"1","e","s","d">>, "FirstEsdras" >>,
    << <<"2","e","s","d">>, "SecondEsdras" >>, << <<"m","a","n">>, "PrayerOfManasseh" >>,
    << <<"p","r","m","a","n">>, "PrayerOfManasseh" >>,
    << <<"p","s","1","5","1">>, "Psalm151" >>, << <<"3","m","a","c">>, "ThirdMaccabees" >>,
    << <<"4","m","a","c">>, "FourthMaccabees" >>
  >>

FullNameTable ==
  <<
    << "Genesis", <<"G","e","n","e","s","i","s">> >>,
    << "Exodus", <<"E","x","o","d","u","s">> >>,
    << "Leviticus", <<"L","e","v","i","t","i","c","u","s">> >>,
    << "Numbers", <<"N","u","m","b","e","r","s">> >>,
    << "Deuteronomy", <<"D","e","u","t","e","r","o","n","o","m","y">> >>,
    << "Joshua", <<"J","o","s","h","u","a">> >>, << "Judges", <<"J","u","d","g","e","s">> >>,
    << "Ruth", <<"R","u","t","h">> >>,
    << "FirstSamuel", <<"1"," ","S","a","m","u","e","l">> >>,
    << "SecondSamuel", <<"2"," ","S","a","m","u","e","l">> >>,
    << "FirstKings", <<"1"," ","K","i","n","g","s">> >>,
    << "SecondKings", <<"2"," ","K","i","n","g","s">> >>,
    << "FirstChronicles", <<"1"," ","C","h","r","o","n","i","c","l","e","s">> >>,
    << "SecondChronicles", <<"2"," ","C","h","r","o","n","i","c","l","e","s">> >>,
    << "Ezra", <<"E","z","r","a">> >>, << "Nehemiah", <<"N","e","h","e","m","i","a","h">> >>,
    << "Esther", <<"E","s","t","h","e","r">> >>, << "Job", <<"J","o","b">> >>,
    << "Psalms", <<"P","s","a","l","m","s">> >>,
    << "Proverbs", <<"P","r","o","v","e","r","b","s">> >>,
    << "Ecclesiastes", <<"E","c","c","l","e","s","i","a","s","t","e","s">> >>,
    << "SongOfSolomon", <<"S","o","n","g"," ","o","f"," ","S","o","l","o","m","o","n">> >>,
    << "Isaiah", <<"I","s","a","i","a","h">> >>,
    << "Jeremiah", <<"J","e","r","e","m","i","a","h">> >>,
    << "Lamentations", <<"L","a","m","e","n","t","a","t","i","o","n","s">> >>,
    << "Ezekiel", <<"E","z","e","k","i","e","l">> >>,
    << "Daniel", <<"D","a","n","i","e","l">> >>, << "Hosea", <<"H","o","s","e","a">> >>,
    << "Joel", <<"J","o","e","l">> >>, << "Amos", <<"A","m","o","s">> >>,
    << "Obadiah", <<"O","b","a","d","i","a","h">> >>, << "Jonah", <<"J","o","n","a","h">> >>,
    << "Micah", <<"M","i","c","a","h">> >>, << "Nahum", <<"N","a","h","u","m">> >>,
    << "Habakkuk", <<"H","a","b","a","k","k","u","k">> >>,
    << "Zephaniah", <<"Z","e","p","h","a","n","i","a","h">> >>,
    << "Haggai", <<"H","a","g","g","a","i">> >>,
    << "Zechariah", <<"Z","e","c","h","a","r","i","a","h">> >>,
    << "Malachi", <<"M","a","l","a","c","h","i">> >>,
    << "Matthew", <<"M","a","t","t","h","e","w">> >>, << "Mark", <<"M","a","r","k">> >>,
    << "Luke", <<"L","u","k","e">> >>, << "John", <<"J","o","h","n">> >>,
    << "Acts", <<"A","c","t","s">> >>, << "Romans", <<"R","o","m","a","n","s">> >>,
    << "FirstCorinthians", <<"1"," ","C","o","r","i","n","t","h","i","a","n","s">> >>,
    << "SecondCorinthians", <<"2"," ","C","o","r","i","n","t","h","i","a","n","s">> >>,
    << "Galatians", <<"G","a","l","a","t","i","a","n","s">> >>,
    << "Ephesians", <<"E","p","h","e","s","i","a","n","s">> >>,
    << "Philippians", <<"P","h","i","l","i","p","p","i","a","n","s">> >>,
    << "Colossians", <<"C","o","l","o","s","s","i","a","n","s">> >>,
    << "FirstThessalonians", <<"1"," ","T","h","e","s","s","a","l","o","n","i","a","n","s">> >>,
    << "SecondThessalonians", <<"2"," ","T","h","e","s","s","a","l","o","n","i","a","n","s">> >>,
    << "FirstTimothy", <<"1"," ","T","i","m","o","t","h","y">> >>,
    << "SecondTimothy", <<"2"," ","T","i","m","o","t","h","y">> >>,
    << "Titus", <<"T","i","t","u","s">> >>,
    << "Philemon", <<"P","h","i","l","e","m","o","n">> >>,
    << "Hebrews", <<"H","e","b","r","e","w","s">> >>, << "James", <<"J","a","m","e","s">> >>,
    << "FirstPeter", <<"1"," ","P","e","t","e","r">> >>,
    << "SecondPeter", <<"2"," ","P","e","t","e","r">> >>,
    << "FirstJohn", <<"1"," ","J","o","h","n">> >>,
    << "SecondJohn", <<"2"," ","J","o","h","n">> >>,
    << "ThirdJohn", <<"3"," ","J","o","h","n">> >>, << "Jude", <<"J","u","d","e">> >>,
    << "Revelation", <<"R","e","v","e","l","a","t","i","o","n">> >>,
    << "Tobit", <<"T","o","b","i","t">> >>, << "Judith", <<"J","u","d","i","t","h">> >>,
    << "Wisdom", <<"W","i","s","d","o","m">> >>, << "Sirach", <<"S","i","r","a","c","h">> >>,
    << "Baruch", <<"B","a","r","u","c","h">> >>,
    << "FirstMaccabees", <<"1"," ","M","a","c","c","a","b","e","e","s">> >>,
    << "SecondMaccabees", <<"2"," ","M","a","c","c","a","b","e","e","s">> >>,
    << "EstherAdditions", <<"E","s","t","h","e","r"," ","(","G","r","e","e","k",")">> >>,
    << "DanielSongOfThree", <<"D","a","n","i","e","l"," ","(","S","o","n","g"," ","o","f"," ","T","h","r","e","e",")">> >>,
    << "DanielSusanna", <<"D","a","n","i","e","l"," ","(","S","u","s","a","n","n","a",")">> >>,
    << "DanielBelAndTheDragon", <<"D","a","n","i","e","l"," ","(","B","e","l"," ","a","n","d"," ","t","h","e"," ","D","r","a","g","o","n",")">> >>,
    << "FirstEsdras", <<"1"," ","E","s","d","r","a","s">> >>,
    << "SecondEsdras", <<"2"," ","E","s","d","r","a","s">> >>,
    << "PrayerOfManasseh", <<"P","r","a","y","e","r"," ","o","f"," ","M","a","n","a","s","s","e","h">> >>,
    << "Psalm151", <<"P","s","a","l","m"," ","1","5","1">> >>,
    << "ThirdMaccabees", <<"3"," ","M","a","c","c","a","b","e","e","s">> >>,
    << "FourthMaccabees", <<"4"," ","M","a","c","c","a","b","e","e","s">> >>
  >>

BibleBooks == Range(BibleBook)

\* the discriminant of every variant: its position in the enum declaration
Discriminant == [b \in BibleBooks |-> (CHOOSE i \in DOMAIN BibleBook : BibleBook[i] = b) - 1]

\* `book as usize`
Ordinal(b) == Discriminant[b]

\* the match of BibleBook::as_str as a function of the variant
AsStrMatch ==
  [b \in BibleBooks |-> AsStrTable[CHOOSE i \in DOMAIN AsStrTable : AsStrTable[i][1] = b][2]]

\* BibleBook::as_str
as_str(b) == AsStrMatch[b]

Ok(v) == [ok |-> TRUE, val |-> v]

Err(e) == [ok |-> FALSE, err |-> e]

ParseBibleBookError == "ParseBibleBookError"

\* the match of from_str as a function of the lowercased string: the first arm
\* that equals it
FromStrMatch ==
  [l \in { FromStrTable[i][1] : i \in DOMAIN FromStrTable } |->
     FromStrTable[CHOOSE i \in DOMAIN FromStrTable :
                    /\ FromStrTable[i][1] = l
                    /\ \A j \in DOMAIN FromStrTable : FromStrTable[j][1] = l => i <= j][2]]

\* from_str matching its argument as it is written
from_str_case_sensitive(s) ==
  IF s \in DOMAIN FromStrMatch THEN Ok(FromStrMatch[s]) ELSE Err(ParseBibleBookError)

\* <BibleBook as FromStr>::from_str: the first arm of the match that equals the
\* lowercased input
from_str(s) ==
  LET l == to_ascii_lowercase(s)
  IN  IF l \in DOMAIN FromStrMatch THEN Ok(FromStrMatch[l]) ELSE Err(ParseBibleBookError)

\* the match of BibleBook::full_name as a function of the variant
FullNameMatch ==
  [b \in BibleBooks |->
     FullNameTable[CHOOSE i \in DOMAIN FullNameTable : FullNameTable[i][1] = b][2]]

\* BibleBook::full_name
full_name(b) == FullNameMatch[b]

(***************************************************************************)
(* verse.rs, chapter.rs, book.rs                                           *)
(***************************************************************************)
\* sanitize_verse_text dropping every '{' only
sanitize_open_brace_only(verse_text) ==
  SelectSeq(verse_text, LAMBDA c : c # "{")

\* sanitize_verse_text: drop every '{' and '}'
sanitize_verse_text(verse_text) ==
  SelectSeq(verse_text, LAMBDA c : c # "{" /\ c # "}")

\* Verse::new, with the two arguments Bible::new_from_map_with_meta passes
Verse_new(verse_text, verse_number) ==
  [verse_text |-> sanitize_verse_text(verse_text), verse_number |-> verse_number]

\* Chapter::new
Chapter_new(verses, chapter_number) ==
  [verses |-> verses, chapter_number |-> chapter_number]

\* Chapter::get_verses
Chapter_get_verses(chapter) == chapter.verses

\* slice::get with a 0-based index
slice_get(s, i) == IF i + 1 \in DOMAIN s THEN Some(s[i + 1]) ELSE None

\* Chapter::get_verse with the index not shifted to 0-based
Chapter_get_verse_unshifted(chapter, verse_number) ==
  IF verse_number = 0 THEN None
  ELSE slice_get(chapter.verses, verse_number)

\* Chapter::get_verse
Chapter_get_verse(chapter, verse_number) ==
  IF verse_number = 0 THEN None
  ELSE slice_get(chapter.verses, verse_number - 1)

\* Book::new
Book_new(abbrev, title, chapters) ==
  [abbrev |-> to_ascii_lowercase(abbrev), title |-> title, chapters |-> chapters]

BookNotFound(book_abbrev, book_name, translation) ==
  [kind |-> "BookNotFound", book_abbrev |-> book_abbrev, book_name |-> book_name,
   translation |-> translation]

ChapterOutOfBounds(book_abbrev, book_name, chapter, max_chapter) ==
  [kind |-> "ChapterOutOfBounds", book_abbrev |-> book_abbrev, book_name |-> book_name,
   chapter |-> chapter, max_chapter |-> max_chapter]

VerseOutOfBounds(book_abbrev, book_name, chapter, verse, max_verse) ==
  [kind |-> "VerseOutOfBounds", book_abbrev |-> book_abbrev, book_name |-> book_name,
   chapter |-> chapter, verse |-> verse, max_verse |-> max_verse]

\* Book::get_chapter finding the chapter by its stored number
Book_get_chapter_by_number(book, chapter_number) ==
  LET hits == { c \in DOMAIN book.chapters :
                  book.chapters[c].chapter_number = chapter_number }
  IN  IF hits # {} THEN Ok(book.chapters[CHOOSE c \in hits : \A d \in hits : c <= d])
      ELSE Err(ChapterOutOfBounds(book.abbrev, book.title, chapter_number,
                                  Len(book.chapters)))

\* Book::get_chapter
Book_get_chapter(book, chapter_number) ==
  IF chapter_number = 0
  THEN Err(ChapterOutOfBounds(book.abbrev, book.title, chapter_number, Len(book.chapters)))
  ELSE LET got == slice_get(book.chapters, chapter_number - 1)
       IN  IF got.some THEN Ok(got.val)
           ELSE Err(ChapterOutOfBounds(book.abbrev, book.title, chapter_number,
                                       Len(book.chapters)))

\* Book::get_verses
Book_get_verses(book, chapter_number) ==
  LET r == Book_get_chapter(book, chapter_number)
  IN  IF r.ok THEN Ok(Chapter_get_verses(r.val)) ELSE r

\* Book::get_verse reporting the chapter count of the book as max_verse
Book_get_verse_max_chapter(book, chapter_number, verse_number) ==
  LET r == Book_get_chapter(book, chapter_number)
  IN  IF ~r.ok THEN r
      ELSE LET got == Chapter_get_verse(r.val, verse_number)
           IN  IF got.some THEN Ok(got.val)
               ELSE Err(VerseOutOfBounds(book.abbrev, book.title, chapter_number,
                                         verse_number, Len(book.chapters)))

\* Book::get_verse
Book_get_verse(book, chapter_number, verse_number) ==
  LET r == Book_get_chapter(book, chapter_number)
  IN  IF ~r.ok THEN r
      ELSE LET got == Chapter_get_verse(r.val, verse_number)
           IN  IF got.some THEN Ok(got.val)
               ELSE Err(VerseOutOfBounds(book.abbrev, book.title, chapter_number,
                                         verse_number, Len(Chapter_get_verses(r.val))))

(***************************************************************************)
(* search_index.rs                                                         *)
(***************************************************************************)
\* str::split on the non-alphanumeric characters: the pieces between separators,
\* empty pieces included
RECURSIVE split_non_alnum(_, _)
split_non_alnum(text, piece) ==
  IF text = <<>> THEN <<piece>>
  ELSE IF is_ascii_alphanumeric(Head(text))
       THEN split_non_alnum(Tail(text), Append(piece, Head(text)))
       ELSE <<piece>> \o split_non_alnum(Tail(text), <<>>)

\* SearchIndex::tokenize keeping the letter case of the text
tokenize_case_sensitive(text) ==
  SelectSeq(split_non_alnum(text, <<>>), LAMBDA s : s # <<>>)

\* SearchIndex::tokenize keeping the empty pieces
tokenize_keep_empty(text) ==
  LET pieces == split_non_alnum(text, <<>>)
  IN  [i \in DOMAIN pieces |-> to_ascii_lowercase(pieces[i])]

\* SearchIndex::tokenize
tokenize(text) ==
  LET pieces == SelectSeq(split_non_alnum(text, <<>>), LAMBDA s : s # <<>>)
  IN  [i \in DOMAIN pieces |-> to_ascii_lowercase(pieces[i])]

\* Vec::contains
contains(v, item) == \E i \in DOMAIN v : v[i] = item

\* the key of sort_by_key(|&(b, c, v)| (b as usize, c, v)), compared as tuples are
KeyLE(x, y) ==
  \/ Ordinal(x[1]) < Ordinal(y[1])
  \/ Ordinal(x[1]) = Ordinal(y[1]) /\ x[2] < y[2]
  \/ Ordinal(x[1]) = Ordinal(y[1]) /\ x[2] = y[2] /\ x[3] <= y[3]

\* insert item into a sorted list after every element whose key is not greater
RECURSIVE insert_sorted(_, _)
insert_sorted(sorted, item) ==
  IF sorted = <<>> THEN <<item>>
  ELSE IF KeyLE(Head(sorted), item)
       THEN <<Head(sorted)>> \o insert_sorted(Tail(sorted), item)
       ELSE <<item>> \o sorted

\* the vector left in the order it has
sort_by_key_skipped(v) == v

\* slice::sort_by_key: a stable sort
RECURSIVE sort_by_key(_)
sort_by_key(v) ==
  IF v = <<>> THEN <<>>
  ELSE insert_sorted(sort_by_key(SubSeq(v, 1, Len(v) - 1)), v[Len(v)])

\* Vec::dedup: drop every element equal to its predecessor
RECURSIVE dedup(_)
dedup(v) ==
  IF Len(v) <= 1 THEN v
  ELSE IF v[Len(v)] = v[Len(v) - 1] THEN dedup(SubSeq(v, 1, Len(v) - 1))
       ELSE Append(dedup(SubSeq(v, 1, Len(v) - 1)), v[Len(v)])

\* Vec::retain(|item| list.contains(item))
retain_contained(results, list) == SelectSeq(results, LAMBDA item : contains(list, item))

\* the loop of SearchIndex::search passing over a term the index does not hold
RECURSIVE search_rest_skip_missing(_, _, _)
search_rest_skip_missing(index, terms, results) ==
  IF terms = <<>> THEN Some(results)
  ELSE IF Head(terms) \in DOMAIN index
       THEN search_rest_skip_missing(index, Tail(terms),
                                     retain_contained(results, index[Head(terms)]))
       ELSE search_rest_skip_missing(index, Tail(terms), results)

\* the loop of SearchIndex::search over the terms after the first
RECURSIVE search_rest(_, _, _)
search_rest(index, terms, results) ==
  IF terms = <<>> THEN Some(results)
  ELSE IF Head(terms) \in DOMAIN index
       THEN search_rest(index, Tail(terms), retain_contained(results, index[Head(terms)]))
       ELSE None

\* SearchIndex::search
SearchIndex_search(index, query) ==
  LET terms == tokenize(query)
  IN  IF terms = <<>> THEN <<>>
      ELSE IF Head(terms) \notin DOMAIN index THEN <<>>
      ELSE LET r == search_rest(index, Tail(terms), index[Head(terms)])
           IN  IF r.some THEN dedup(sort_by_key(r.val)) ELSE <<>>

(***************************************************************************)
(* bible.rs: the operations of Bible, as functions of the Bible value      *)
(* self = [books, index_by_abbrev, search_index, name].                    *)
(***************************************************************************)
\* HashMap::insert
map_insert(m, k, v) == [x \in (DOMAIN m) \cup {k} |-> IF x = k THEN v ELSE m[x]]

EmptyMap == [x \in {} |-> 0]

\* Bible::get_book_by_abbrev taking the index value for a 1-based position
get_book_by_abbrev_one_based(self, abbrev) ==
  LET key == to_ascii_lowercase(abbrev)
      found == IF key \in DOMAIN self.index_by_abbrev
               THEN slice_get(self.books, self.index_by_abbrev[key] - 1)
               ELSE None
  IN  IF found.some THEN Ok(found.val)
      ELSE LET parsed == from_str(key)
               book_name == IF parsed.ok THEN full_name(parsed.val) ELSE key
           IN  Err(BookNotFound(key, book_name, self.name))

\* Bible::get_book_by_abbrev looking its argument up as it is written
get_book_by_abbrev_case_sensitive(self, abbrev) ==
  LET found == IF abbrev \in DOMAIN self.index_by_abbrev
               THEN slice_get(self.books, self.index_by_abbrev[abbrev])
               ELSE None
  IN  IF found.some THEN Ok(found.val)
      ELSE LET parsed == from_str(abbrev)
               book_name == IF parsed.ok THEN full_name(parsed.val) ELSE abbrev
           IN  Err(BookNotFound(abbrev, book_name, self.name))

\* Bible::get_book_by_abbrev
get_book_by_abbrev(self, abbrev) ==
  LET key == to_ascii_lowercase(abbrev)
      found == IF key \in DOMAIN self.index_by_abbrev
               THEN slice_get(self.books, self.index_by_abbrev[key])
               ELSE None
  IN  IF found.some THEN Ok(found.val)
      ELSE LET parsed == from_str(key)
               book_name == IF parsed.ok THEN full_name(parsed.val) ELSE key
           IN  Err(BookNotFound(key, book_name, self.name))

\* Bible::get_book
get_book(self, book) == get_book_by_abbrev(self, as_str(book))

\* Bible::get_verses
get_verses(self, book, chapter_number) ==
  LET r == get_book(self, book)
  IN  IF r.ok THEN Book_get_verses(r.val, chapter_number) ELSE r

\* Bible::get_verse
get_verse(self, book, chapter_number, verse_number) ==
  LET r == get_book(self, book)
  IN  IF r.ok THEN Book_get_verse(r.val, chapter_number, verse_number) ELSE r

\* Bible::parse_error
parse_error(self, part) == BookNotFound(to_ascii_lowercase(part), part, self.name)

\* Bible::resolve_book trying the canonical codes before the alias table
resolve_book_official_first(self, input) ==
  LET lower == to_ascii_lowercase(input)
      alts == { i \in DOMAIN ALT_ABBREVS : ALT_ABBREVS[i][1] = lower }
      official == from_str(lower)
      titled == { i \in DOMAIN self.books : eq_ignore_ascii_case(self.books[i].title, input) }
  IN  IF official.ok THEN Some(official.val)
      ELSE IF alts # {}
      THEN Some(ALT_ABBREVS[CHOOSE i \in alts : \A j \in alts : i <= j][2])
      ELSE IF titled = {} THEN None
      ELSE LET b == self.books[CHOOSE i \in titled : \A j \in titled : i <= j]
               parsed == from_str(to_ascii_lowercase(b.abbrev))
           IN  IF parsed.ok THEN Some(parsed.val) ELSE None

\* Bible::resolve_book without the loaded titles
resolve_book_no_titles(self, input) ==
  LET lower == to_ascii_lowercase(input)
      alts == { i \in DOMAIN ALT_ABBREVS : ALT_ABBREVS[i][1] = lower }
      official == from_str(lower)
  IN  IF alts # {}
      THEN Some(ALT_ABBREVS[CHOOSE i \in alts : \A j \in alts : i <= j][2])
      ELSE IF official.ok THEN Some(official.val)
      ELSE None

\* Bible::resolve_book
resolve_book(self, input) ==
  LET lower == to_ascii_lowercase(input)
      alts == { i \in DOMAIN ALT_ABBREVS : ALT_ABBREVS[i][1] = lower }
      official == from_str(lower)
      titled == { i \in DOMAIN self.books : eq_ignore_ascii_case(self.books[i].title, input) }
  IN  IF alts # {}
      THEN Some(ALT_ABBREVS[CHOOSE i \in alts : \A j \in alts : i <= j][2])
      ELSE IF official.ok THEN Some(official.val)
      ELSE IF titled = {} THEN None
      ELSE LET b == self.books[CHOOSE i \in titled : \A j \in titled : i <= j]
               parsed == from_str(to_ascii_lowercase(b.abbrev))
           IN  IF parsed.ok THEN Some(parsed.val) ELSE None

\* Bible::get_verse_by_reference
get_verse_by_reference(self, ref) ==
  LET reference == trim(ref)
      split1 == rsplit_once(reference, ":")
  IN  IF ~split1.some THEN Err(parse_error(self, reference))
      ELSE
      LET book_and_chapter == split1.val[1]
          verse_number == parse_usize(trim(split1.val[2]))
          split2 == rsplit_once(book_and_chapter, " ")
      IN  IF ~verse_number.some THEN Err(parse_error(self, reference))
          ELSE IF ~split2.some THEN Err(parse_error(self, book_and_chapter))
          ELSE
          LET book_str == split2.val[1]
              chapter_number == parse_usize(trim(split2.val[2]))
              book == resolve_book(self, trim(book_str))
          IN  IF ~chapter_number.some THEN Err(parse_error(self, book_and_chapter))
              ELSE IF ~book.some THEN Err(parse_error(self, book_str))
              ELSE get_verse(self, book.val, chapter_number.val, verse_number.val)

\* the tuples build_search_index offers to the index for one verse, each with
\* its term, in the order of the loop over tokenize(verse.text())
verse_postings(verse, book_enum, chapter_idx) ==
  LET terms == tokenize(verse.verse_text)
  IN  [i \in DOMAIN terms |-> <<terms[i], <<book_enum, chapter_idx + 1, verse.verse_number>>>>]

\* the loop over chapter.get_verses()
RECURSIVE chapter_postings(_, _, _)
chapter_postings(verses, book_enum, chapter_idx) ==
  IF verses = <<>> THEN <<>>
  ELSE verse_postings(Head(verses), book_enum, chapter_idx)
         \o chapter_postings(Tail(verses), book_enum, chapter_idx)

\* the loop over book.chapters().iter().enumerate(), from chapter_idx on
RECURSIVE book_postings(_, _, _)
book_postings(chapters, book_enum, chapter_idx) ==
  IF chapter_idx >= Len(chapters) THEN <<>>
  ELSE chapter_postings(Chapter_get_verses(chapters[chapter_idx + 1]), book_enum, chapter_idx)
         \o book_postings(chapters, book_enum, chapter_idx + 1)

\* the loop over &self.books: a book whose abbrev from_str rejects is skipped
RECURSIVE bible_postings(_)
bible_postings(bks) ==
  IF bks = <<>> THEN <<>>
  ELSE LET parsed == from_str(Head(bks).abbrev)
       IN  (IF parsed.ok THEN book_postings(Head(bks).chapters, parsed.val, 0) ELSE <<>>)
             \o bible_postings(Tail(bks))

\* entry.push(tuple) without asking entry.contains(&tuple)
push_always(entry, tuple) == Append(entry, tuple)

\* if !entry.contains(&tuple) { entry.push(tuple) }
push_unique(entry, tuple) == IF contains(entry, tuple) THEN entry ELSE Append(entry, tuple)

\* the entry of one term after the tuples offered to it, in order
RECURSIVE push_all(_)
push_all(tuples) ==
  IF tuples = <<>> THEN <<>>
  ELSE push_unique(push_all(SubSeq(tuples, 1, Len(tuples) - 1)), tuples[Len(tuples)])

\* Bible::build_search_index (SearchIndex::new wraps the map unchanged): the
\* entry of every term collects the tuples offered to it, then every entry is
\* sorted
build_search_index(self) ==
  LET postings == bible_postings(self.books)
      offered(term) ==
        LET mine == SelectSeq(postings, LAMBDA p : p[1] = term)
        IN  [i \in DOMAIN mine |-> mine[i][2]]
  IN  [term \in { postings[i][1] : i \in DOMAIN postings } |->
         sort_by_key(push_all(offered(term)))]

\* Bible::search that builds and caches the index on first use but answers
\* that first query with an empty vector
search_build_only(self, query) ==
  IF query = <<>> THEN [search_index |-> self.search_index, ret |-> <<>>]
  ELSE IF ~self.search_index.some
       THEN [search_index |-> Some(build_search_index(self)), ret |-> <<>>]
       ELSE [search_index |-> self.search_index,
             ret |-> SearchIndex_search(self.search_index.val, query)]

\* Bible::search that takes the cached index out of self when it answers from
\* it (self.search_index.take())
search_drop_cache(self, query) ==
  IF query = <<>> THEN [search_index |-> self.search_index, ret |-> <<>>]
  ELSE LET cached == IF ~self.search_index.some
                     THEN Some(build_search_index(self))
                     ELSE self.search_index
       IN  [search_index |-> IF self.search_index.some THEN None ELSE cached,
            ret |-> SearchIndex_search(cached.val, query)]

\* Bible::search without the early return for the empty query
search_no_empty_check(self, query) ==
  LET cached == IF ~self.search_index.some
                THEN Some(build_search_index(self))
                ELSE self.search_index
  IN  [search_index |-> cached, ret |-> SearchIndex_search(cached.val, query)]

\* Bible::search (&mut self): the search index it leaves in self and the
\* vector it returns
search(self, query) ==
  IF query = <<>> THEN [search_index |-> self.search_index, ret |-> <<>>]
  ELSE LET cached == IF ~self.search_index.some
                     THEN Some(build_search_index(self))
                     ELSE self.search_index
       IN  [search_index |-> cached, ret |-> SearchIndex_search(cached.val, query)]

\* the chapter of one entry numbered from 0: chapter_idx taken for the number
load_chapter_zero_based(verses, chapter_idx) ==
  Chapter_new([verse_idx \in DOMAIN verses |-> Verse_new(verses[verse_idx], verse_idx)],
              chapter_idx)

\* the chapter of one entry of the loaded mapping
load_chapter(verses, chapter_idx) ==
  Chapter_new([verse_idx \in DOMAIN verses |-> Verse_new(verses[verse_idx], verse_idx)],
              chapter_idx + 1)

\* the book of one entry (abbrev, entry) of the loaded mapping
load_book(abbrev, entry) ==
  Book_new(abbrev, entry.name,
           [i \in DOMAIN entry.chapters |-> load_chapter(entry.chapters[i], i - 1)])

RECURSIVE build_abbrev_index(_, _, _)
build_abbrev_index(m, bks, i) ==
  IF i >= Len(bks) THEN m
  ELSE build_abbrev_index(map_insert(m, to_ascii_lowercase(bks[i + 1].abbrev), i), bks, i + 1)

\* Bible::new_from_map_with_meta; map is the IndexMap as the sequence of its
\* (key, entry) pairs in insertion order
new_from_map_with_meta(map, id_, name_, description_, language_) ==
  LET bks == [i \in DOMAIN map |-> load_book(map[i].key, map[i].entry)]
  IN  [books |-> bks,
       index_by_abbrev |-> build_abbrev_index(EmptyMap, bks, 0),
       search_index |-> None,
       id |-> id_, name |-> name_, description |-> description_, language |-> language_]

(***************************************************************************)
(* The state: one Bible (the fields of struct Bible), the mapping it was   *)
(* loaded from, a SearchIndex a caller obtained from build_search_index,   *)
(* a free-standing Book built through the public constructors, and the     *)
(* last call with its return value.                                        *)
(***************************************************************************)
VARIABLES books, index_by_abbrev, search_index, id, name, description, language,
          loaded, index, book, call, result

vars == <<books, index_by_abbrev, search_index, id, name, description, language,
          loaded, index, book, call, result>>

bible_vars == <<books, index_by_abbrev, search_index, id, name, description, language, loaded>>

\* &self of the Bible methods
Self ==
  [books |-> books, index_by_abbrev |-> index_by_abbrev, search_index |-> search_index,
   name |-> name]

(***************************************************************************)
(* Inputs.                                                                 *)
(***************************************************************************)
\* verse texts handed over by the loader
Texts ==
  <<
    <<"I","n"," ","t","h","e"," ","b","e","g","i","n","n","i","n","g">>,  \* "In the beginning"
    <<"t","h","e"," ","{","B","e","g","i","n","n","i","n","g","}"," ","t","h","e">>,  \* "the {Beginning} the"
    <<"G","o","d"," ","s","a","i","d",":"," ","i","n">>  \* "God said: in"
  >>

\* the (key, name) pairs the loaded mappings are made of
Pool ==
  {
    [key |-> <<"g","n">>, name |-> <<"G","e","n","e","s","i","s">>],  \* "gn": "Genesis"
    [key |-> <<"G","N">>, name |-> <<"G","e","n","e","s","i","s">>],  \* "GN": "Genesis"
    [key |-> <<"j","o">>, name |-> <<"J","o","h","n">>],  \* "jo": "John"
    [key |-> <<"s","o">>, name |-> <<"S","o","n","g"," ","o","f"," ","S","o","l","o","m","o","n">>],  \* "so": "Song of Solomon"
    [key |-> <<"x","x">>, name |-> <<"A","c","t","s"," ","o","f"," ","P","a","u","l">>],  \* "xx": "Acts of Paul"
    [key |-> <<"X","X">>, name |-> <<"A","c","t","s"," ","o","f"," ","P","a","u","l">>]  \* "XX": "Acts of Paul"
  }

\* the (key, name) pairs of the mappings the references are looked up in: two
\* keys of one identity, and one title under a canonical and under another key
RefPool ==
  {
    [key |-> <<"g","n">>, name |-> <<"G","e","n","e","s","i","s">>],  \* "gn": "Genesis"
    [key |-> <<"G","N">>, name |-> <<"G","e","n","e","s","i","s">>],  \* "GN": "Genesis"
    [key |-> <<"j","o">>, name |-> <<"J","o","h","n">>],  \* "jo": "John"
    [key |-> <<"s","o">>, name |-> <<"S","o","n","g"," ","o","f"," ","S","o","l","o","m","o","n">>],  \* "so": "Song of Solomon"
    [key |-> <<"x","x">>, name |-> <<"S","o","n","g"," ","o","f"," ","S","o","l","o","m","o","n">>]  \* "xx": "Song of Solomon"
  }

\* arguments of get_book_by_abbrev
AbbrevArgs ==
  {
    <<"g","n">>,  \* "gn"
    <<"G","N">>,  \* "GN"
    <<"G","n">>,  \* "Gn"
    <<"j","o">>,  \* "jo"
    <<"s","o">>,  \* "so"
    <<"x","x">>,  \* "xx"
    <<"x","X">>,  \* "xX"
    <<"e","x">>,  \* "ex"
    <<"E","x">>,  \* "Ex"
    <<"z","z">>,  \* "zz"
    <<>>  \* ""
  }

\* book tokens of references
RefTokens ==
  {
    <<"G","e","n">>,  \* "Gen"
    <<"J","n">>,  \* "Jn"
    <<"J","N">>,  \* "JN"
    <<"j","o">>,  \* "jo"
    <<"g","e","n","e","s","i","s">>,  \* "genesis"
    <<"S","o","n","g"," ","o","f"," ","S","o","l","o","m","o","n">>,  \* "Song of Solomon"
    <<"A","c","t","s"," ","o","f"," ","P","a","u","l">>,  \* "Acts of Paul"
    <<"U","n","k","n","o","w","n">>  \* "Unknown"
  }

\* references that are malformed, or carry a sign, a leading zero or extra whitespace
OddRefs ==
  {
    <<>>,  \* ""
    <<"G","e","n","e","s","i","s"," ","1">>,  \* "Genesis 1"
    <<"G","e","n","1",":","1">>,  \* "Gen1:1"
    <<"G","e","n"," ","1",":","x">>,  \* "Gen 1:x"
    <<"G","e","n"," ","x",":","1">>,  \* "Gen x:1"
    <<"G","e","n"," ","1",":">>,  \* "Gen 1:"
    <<"G","e","n"," ",":","1">>,  \* "Gen :1"
    <<"G","e","n"," ","1",":","-","1">>,  \* "Gen 1:-1"
    <<"G","e","n"," ","-","1",":","1">>,  \* "Gen -1:1"
    <<":">>,  \* ":"
    <<"U","n","k","n","o","w","n"," ","x",":","1">>,  \* "Unknown x:1"
    <<"G","e","n"," ","+","1",":","0","1">>,  \* "Gen +1:01"
    <<" ","G","e","n"," ","1",":","1"," ">>,  \* " Gen 1:1 "
    <<"G","e","n"," "," ","1",":","1">>,  \* "Gen  1:1"
    <<"G","e","n"," ","1",":"," ","1">>,  \* "Gen 1: 1"
    <<"G","e","n"," ","1"," ",":","1">>  \* "Gen 1 :1"
  }

\* references with a number of two digits
LongRefs ==
  {
    <<"J","n"," ","3",":","1","6">>  \* "Jn 3:16"
  }

\* search queries
Queries ==
  {
    <<>>,  \* ""
    <<" ">>,  \* " "
    <<"b","e","g","i","n","n","i","n","g">>,  \* "beginning"
    <<"i","n"," ","t","h","e">>,  \* "in the"
    <<"T","H","E"," ","i","n">>,  \* "THE in"
    <<"t","h","e"," ","t","h","e">>,  \* "the the"
    <<"G","o","d">>,  \* "God"
    <<"s","a","i","d"," ","b","e","g","i","n","n","i","n","g">>,  \* "said beginning"
    <<"z","z">>,  \* "zz"
    <<"b","e","g","i","n","n","i","n","g"," ","z","z">>,  \* "beginning zz"
    <<"z","z"," ","b","e","g","i","n","n","i","n","g">>,  \* "zz beginning"
    <<"i","n","-","b","e","g","i","n","n","i","n","g">>,  \* "in-beginning"
    <<":","-">>  \* ":-"
  }

\* the decimal numeral of a one-digit number
Numeral(n) == <<DigitSeq[n + 1]>>

\* the reference "<token> <c>:<v>"
MkRef(token, c, v) == token \o <<" ">> \o c \o <<":">> \o v

BookArgs == {"Genesis", "John", "SongOfSolomon", "Exodus"}

ChapterArgs == 0 .. MaxChapters + 1

VerseArgs == 0 .. MaxVerses + 1

\* (chapter, verse) pairs of the references: every chapter with verse 1, every
\* verse of chapter 1, and the last verse of the last chapter
RefPairs ==
  { <<c, 1>> : c \in ChapterArgs } \cup { <<1, v>> : v \in VerseArgs }
    \cup { <<MaxChapters, MaxVerses>> }

RefArgs ==
  { MkRef(t, Numeral(p[1]), Numeral(p[2])) : t \in RefTokens, p \in RefPairs }
    \cup OddRefs \cup LongRefs

\* verse counts per chapter
Shapes == UNION { [1 .. n -> 0 .. MaxVerses] : n \in 0 .. MaxChapters }

\* chapters of the given shape, the texts taken in turn
Content(shape, rot) ==
  [c \in DOMAIN shape |-> [v \in 1 .. shape[c] |-> Texts[((c + v + rot) % Len(Texts)) + 1]]]

\* MaxChapters chapters: MaxVerses verses in the first, one in every other
LongShape == [c \in 1 .. MaxChapters |-> IF c = 1 THEN MaxVerses ELSE 1]

\* sequences of Pool entries with pairwise different keys
KeySeqs ==
  UNION { { s \in [1 .. n -> Pool] : \A i, j \in 1 .. n : i # j => s[i].key # s[j].key }
          : n \in 0 .. MaxBooks }

MkEntry(e, chapters) == [key |-> e.key, entry |-> [name |-> e.name, chapters |-> chapters]]

\* the loaded mappings: one book of every shape, and up to MaxBooks long books
Loaders ==
  { <<MkEntry(e, Content(sh, 0))>> : e \in { p \in Pool : p.key \in {<<"g","n">>, <<"x","x">>} },
                                       sh \in Shapes }
    \cup { [i \in DOMAIN ks |-> MkEntry(ks[i], Content(LongShape, i))] : ks \in KeySeqs }

\* the metadata strings of the loaded file
MetaName == <<"K","J","V">>

InitBible(map) ==
  LET b == new_from_map_with_meta(map, <<"e","n">>, MetaName, <<"d">>, <<"E","n">>)
  IN  /\ loaded = map
      /\ books = b.books
      /\ index_by_abbrev = b.index_by_abbrev
      /\ search_index = b.search_index
      /\ id = b.id
      /\ name = b.name
      /\ description = b.description
      /\ language = b.language

NoBook == Book_new(<<>>, <<>>, <<>>)

Init ==
  /\ \E map \in Loaders : InitBible(map)
  /\ index = None
  /\ book = NoBook
  /\ call = [op |-> "new_from_map_with_meta"]
  /\ result = None

(***************************************************************************)
(* The addressed and reference lookups: one action per public method.      *)
(***************************************************************************)
GetBook ==
  \E b \in BookArgs :
    /\ call' = [op |-> "get_book", book |-> b]
    /\ result' = get_book(Self, b)
    /\ UNCHANGED <<bible_vars, index, book>>

GetBookByAbbrev ==
  \E s \in AbbrevArgs :
    /\ call' = [op |-> "get_book_by_abbrev", abbrev |-> s]
    /\ result' = get_book_by_abbrev(Self, s)
    /\ UNCHANGED <<bible_vars, index, book>>

GetVerses ==
  \E b \in BookArgs, c \in ChapterArgs :
    /\ call' = [op |-> "get_verses", book |-> b, chapter |-> c]
    /\ result' = get_verses(Self, b, c)
    /\ UNCHANGED <<bible_vars, index, book>>

GetVerse ==
  \E b \in BookArgs, c \in ChapterArgs, v \in VerseArgs :
    /\ call' = [op |-> "get_verse", book |-> b, chapter |-> c, verse |-> v]
    /\ result' = get_verse(Self, b, c, v)
    /\ UNCHANGED <<bible_vars, index, book>>

GetVerseByReference ==
  \E r \in RefArgs :
    /\ call' = [op |-> "get_verse_by_reference", reference |-> r]
    /\ result' = get_verse_by_reference(Self, r)
    /\ UNCHANGED <<bible_vars, index, book>>

\* the addressed lookups on a loaded Bible
Next == GetBook \/ GetBookByAbbrev \/ GetVerses \/ GetVerse

Spec == Init /\ [][Next]_vars

\* the reference lookups on a loaded Bible
NextRef == GetVerseByReference

\* sequences of RefPool entries with pairwise different keys
RefKeySeqs ==
  UNION { { s \in [1 .. n -> RefPool] : \A i, j \in 1 .. n : i # j => s[i].key # s[j].key }
          : n \in 0 .. MaxBooks }

\* the loaded mappings of the reference lookups: one book of every shape, and
\* up to MaxBooks long books
RefLoaders ==
  { <<MkEntry(e, Content(sh, 0))>> : e \in { p \in RefPool : p.key \in {<<"g","n">>, <<"x","x">>} },
                                       sh \in Shapes }
    \cup { [i \in DOMAIN ks |-> MkEntry(ks[i], Content(LongShape, i))] : ks \in RefKeySeqs }

InitRef ==
  /\ \E map \in RefLoaders : InitBible(map)
  /\ index = None
  /\ book = NoBook
  /\ call = [op |-> "new_from_map_with_meta"]
  /\ result = None

SpecRef == InitRef /\ [][NextRef]_vars

(***************************************************************************)
(* Search: Bible::search with its cached index, and a SearchIndex the      *)
(* caller builds with build_search_index and queries directly.             *)
(***************************************************************************)
Search ==
  \E q \in Queries :
    LET r == search(Self, q)
    IN  /\ call' = [op |-> "search", query |-> q]
        /\ search_index' = r.search_index
        /\ result' = r.ret
        /\ UNCHANGED <<books, index_by_abbrev, id, name, description, language, loaded,
                       index, book>>

\* build_search_index storing the index it built in self.search_index as well
BuildSearchIndexCaching ==
  /\ ~index.some
  /\ call' = [op |-> "build_search_index"]
  /\ index' = Some(build_search_index(Self))
  /\ search_index' = index'
  /\ result' = index'.val
  /\ UNCHANGED <<books, index_by_abbrev, id, name, description, language, loaded, book>>

\* the caller builds its index once and keeps it
BuildSearchIndex ==
  /\ ~index.some
  /\ call' = [op |-> "build_search_index"]
  /\ index' = Some(build_search_index(Self))
  /\ result' = index'.val
  /\ UNCHANGED <<bible_vars, book>>

IndexSearch ==
  \E q \in Queries :
    /\ index.some
    /\ call' = [op |-> "SearchIndex_search", query |-> q]
    /\ result' = SearchIndex_search(index.val, q)
    /\ UNCHANGED <<bible_vars, index, book>>

NextSearch == Search \/ BuildSearchIndex \/ IndexSearch

\* the loaded mappings searched: one Genesis of every shape, and up to MaxBooks
\* long books
SearchLoaders ==
  { map \in Loaders : Len(map) = 1 => map[1].key = <<"g","n">> }

InitSearch ==
  /\ \E map \in SearchLoaders : InitBible(map)
  /\ index = None
  /\ book = NoBook
  /\ call = [op |-> "new_from_map_with_meta"]
  /\ result = None

SpecSearch == InitSearch /\ [][NextSearch]_vars

(***************************************************************************)
(* A free-standing Book, built with Book::new, Chapter::new and Verse::new *)
(* from numbers the caller chooses.                                        *)
(***************************************************************************)
Numberings == {"dense", "shifted", "reversed", "gapped"}

\* the number given to the j-th of n items
NumberOf(numbering, j, n) ==
  CASE numbering = "dense" -> j
    [] numbering = "shifted" -> j + 1
    [] numbering = "reversed" -> n + 1 - j
    [] numbering = "gapped" -> 2 * j - 1

MkChapter(texts, chapter_number, numbering) ==
  Chapter_new([j \in DOMAIN texts |-> Verse_new(texts[j], NumberOf(numbering, j, Len(texts)))],
              chapter_number)

MkBook(shape, chapter_numbering, verse_numbering) ==
  LET content == Content(shape, 0)
  IN  Book_new(<<"G","N">>, <<"G","e","n","e","s","i","s">>,
               [c \in DOMAIN content |->
                  MkChapter(content[c], NumberOf(chapter_numbering, c, Len(content)),
                            verse_numbering)])

FreeBooks ==
  { MkBook(sh, cn, vn) : sh \in Shapes, cn \in Numberings \ {"gapped"}, vn \in Numberings }

InitBook ==
  /\ InitBible(<<>>)
  /\ index = None
  /\ book \in FreeBooks
  /\ call = [op |-> "Book_new"]
  /\ result = None

BookGetChapter ==
  \E n \in ChapterArgs :
    /\ call' = [op |-> "Book_get_chapter", chapter |-> n]
    /\ result' = Book_get_chapter(book, n)
    /\ UNCHANGED <<bible_vars, index, book>>

BookGetVerses ==
  \E n \in ChapterArgs :
    /\ call' = [op |-> "Book_get_verses", chapter |-> n]
    /\ result' = Book_get_verses(book, n)
    /\ UNCHANGED <<bible_vars, index, book>>

BookGetVerse ==
  \E c \in ChapterArgs, v \in VerseArgs :
    /\ call' = [op |-> "Book_get_verse", chapter |-> c, verse |-> v]
    /\ result' = Book_get_verse(book, c, v)
    /\ UNCHANGED <<bible_vars, index, book>>

\* book.chapters()[i].get_verse(n)
ChapterGetVerse ==
  \E i \in DOMAIN book.chapters, n \in 0 .. 2 * MaxVerses :
    /\ call' = [op |-> "Chapter_get_verse", position |-> i, verse |-> n]
    /\ result' = Chapter_get_verse(book.chapters[i], n)
    /\ UNCHANGED <<bible_vars, index, book>>

NextBook == BookGetChapter \/ BookGetVerses \/ BookGetVerse \/ ChapterGetVerse

SpecBook == InitBook /\ [][NextBook]_vars

(***************************************************************************)
(* BibleBook::as_str and BibleBook::from_str, called on their own.         *)
(***************************************************************************)
\* the strings handed to from_str: every canonical code as as_str writes it,
\* in upper case and capitalized, every key of the alias table, "" and "xyz"
CodeArgs ==
  LET codes == { AsStrTable[i][2] : i \in DOMAIN AsStrTable }
  IN  codes \cup { to_ascii_uppercase(c) : c \in codes }
        \cup { <<to_ascii_uppercase_char(c[1])>> \o Tail(c) : c \in codes }
        \cup { ALT_ABBREVS[i][1] : i \in DOMAIN ALT_ABBREVS }
        \cup { <<>>, <<"x","y","z">> }

InitEnum ==
  /\ InitBible(<<>>)
  /\ index = None
  /\ book = NoBook
  /\ call = [op |-> "new_from_map_with_meta"]
  /\ result = None

AsStr ==
  \E b \in BibleBooks :
    /\ call' = [op |-> "as_str", book |-> b]
    /\ result' = as_str(b)
    /\ UNCHANGED <<bible_vars, index, book>>

FromStr ==
  \E s \in CodeArgs :
    /\ call' = [op |-> "from_str", s |-> s]
    /\ result' = from_str(s)
    /\ UNCHANGED <<bible_vars, index, book>>

NextEnum == AsStr \/ FromStr

SpecEnum == InitEnum /\ [][NextEnum]_vars

(***************************************************************************)
(* SearchIndex::tokenize and Verse::new, called on their own on a text.    *)
(***************************************************************************)
\* the characters of the texts: a lower-case and an upper-case letter, a
\* digit, a punctuation mark, a letter outside ASCII, and the two braces
InputChars == {"a", "B", "7", "-", "é", "{", "}"}

\* the texts of up to MaxLen characters
InputTexts == UNION { [1 .. n -> InputChars] : n \in 0 .. MaxLen }

\* a text is chosen
InitText ==
  /\ InitBible(<<>>)
  /\ index = None
  /\ book = NoBook
  /\ \E t \in InputTexts : call = [op |-> "text", text |-> t]
  /\ result = None

Tokenize ==
  /\ call' = [op |-> "tokenize", text |-> call.text]
  /\ result' = tokenize(call.text)
  /\ UNCHANGED <<bible_vars, index, book>>

VerseNew ==
  /\ call' = [op |-> "Verse_new", text |-> call.text]
  /\ result' = Verse_new(call.text, 1)
  /\ UNCHANGED <<bible_vars, index, book>>

NextText == Tokenize \/ VerseNew

SpecText == InitText /\ [][NextText]_vars

(***************************************************************************)
(* Several callers of Bible::search on one Bible. search takes &mut self,  *)
(* so a caller runs it only while it holds the exclusive borrow of the     *)
(* Bible; the body is taken statement by statement. Here call[c] is the    *)
(* call of caller c (its position pc, its query, the index it built and    *)
(* not yet stored, the number of its builds) and result[c] what the call   *)
(* returned to it.                                                         *)
(***************************************************************************)
Callers == 1 .. MaxCallers

\* the queries of the callers
CallerQueries == { <<>>, <<"G","o","d">>, <<"i","n"," ","t","h","e">> }

\* the loaded mappings: none or one long book
ConcLoaders ==
  { [i \in DOMAIN ks |-> MkEntry(ks[i], Content(LongShape, i))]
    : ks \in { s \in KeySeqs : Len(s) <= 1 } }

InitConc ==
  /\ \E map \in ConcLoaders : InitBible(map)
  /\ index = None
  /\ book = NoBook
  /\ call = [c \in Callers |-> [pc |-> "idle", query |-> <<>>, local |-> None, builds |-> 0]]
  /\ result = [c \in Callers |-> None]

\* caller c has the Bible borrowed: it is inside search
Inside(c) == call[c].pc \notin {"idle", "returned"}

\* a &self receiver: a caller enters whatever the others do
shared_borrow(c) == TRUE

\* the &mut self receiver: a caller enters only while no other caller is inside
exclusive_borrow(c) == \A d \in Callers \ {c} : ~Inside(d)

\* caller c calls search(query)
SearchCall(c) ==
  \E q \in CallerQueries :
    /\ ~Inside(c)
    /\ exclusive_borrow(c)
    /\ call' = [call EXCEPT ![c].pc = "entered", ![c].query = q]
    /\ result' = [result EXCEPT ![c] = None]
    /\ UNCHANGED <<bible_vars, index, book>>

\* if query.is_empty() { return Vec::new(); }
SearchIsEmpty(c) ==
  /\ call[c].pc = "entered"
  /\ IF call[c].query = <<>>
     THEN /\ call' = [call EXCEPT ![c].pc = "returned"]
          /\ result' = [result EXCEPT ![c] = Some(<<>>)]
     ELSE /\ call' = [call EXCEPT ![c].pc = "is_none"]
          /\ UNCHANGED result
  /\ UNCHANGED <<bible_vars, index, book>>

\* if self.search_index.is_none()
SearchIsNone(c) ==
  /\ call[c].pc = "is_none"
  /\ call' = [call EXCEPT ![c].pc = IF ~search_index.some THEN "build" ELSE "answer"]
  /\ UNCHANGED <<bible_vars, index, book, result>>

\* let index = self.build_search_index();
SearchBuild(c) ==
  /\ call[c].pc = "build"
  /\ call' = [call EXCEPT ![c].pc = "store",
                          ![c].local = Some(build_search_index(Self)),
                          ![c].builds = @ + 1]
  /\ UNCHANGED <<bible_vars, index, book, result>>

\* self.search_index = Some(index);
SearchStore(c) ==
  /\ call[c].pc = "store"
  /\ search_index' = call[c].local
  /\ call' = [call EXCEPT ![c].pc = "answer", ![c].local = None]
  /\ UNCHANGED <<books, index_by_abbrev, id, name, description, language, loaded,
                 index, book, result>>

\* self.search_index.as_ref().unwrap().search(query)
SearchAnswer(c) ==
  /\ call[c].pc = "answer"
  /\ call' = [call EXCEPT ![c].pc = "returned"]
  /\ result' = [result EXCEPT ![c] = Some(SearchIndex_search(search_index.val, call[c].query))]
  /\ UNCHANGED <<bible_vars, index, book>>

NextConc ==
  \E c \in Callers :
    \/ SearchCall(c)
    \/ SearchIsEmpty(c)
    \/ SearchIsNone(c)
    \/ SearchBuild(c)
    \/ SearchStore(c)
    \/ SearchAnswer(c)

SpecConc == InitConc /\ [][NextConc]_vars

(***************************************************************************)
(* Every public method of Bible on one Bible, in any order.                *)
(***************************************************************************)
InitAll ==
  /\ \E map \in ConcLoaders : InitBible(map)
  /\ index = None
  /\ book = NoBook
  /\ call = [op |-> "new_from_map_with_meta"]
  /\ result = None

NextAll == Next \/ NextRef \/ NextSearch

SpecAll == InitAll /\ [][NextAll]_vars

(***************************************************************************)
(* References whose book token is a canonical code, looked up in Bibles    *)
(* whose books are keyed by canonical codes that the alias table also      *)
(* holds.                                                                  *)
(***************************************************************************)
\* the (key, name) pairs of the loaded mappings
CodePool ==
  {
    [key |-> <<"j","n">>, name |-> <<"J","o","n","a","h">>],
    [key |-> <<"j","o">>, name |-> <<"J","o","h","n">>],
    [key |-> <<"j","u","d">>, name |-> <<"J","u","d","g","e","s">>],
    [key |-> <<"j","d">>, name |-> <<"J","u","d","e">>],
    [key |-> <<"g","n">>, name |-> <<"G","e","n","e","s","i","s">>]
  }

\* the book tokens of the references: canonical codes, one in upper case
CodeTokens ==
  { <<"j","n">>, <<"J","N">>, <<"j","o">>, <<"j","u","d">>, <<"j","d">>, <<"g","n">> }

CodeRefArgs ==
  { MkRef(t, Numeral(p[1]), Numeral(p[2])) : t \in CodeTokens, p \in RefPairs }

\* up to MaxBooks long books under pairwise different keys
CodeLoaders ==
  UNION { { [i \in 1 .. n |-> MkEntry(s[i], Content(LongShape, i))]
            : s \in { t \in [1 .. n -> CodePool] :
                        \A i, j \in 1 .. n : i # j => t[i].key # t[j].key } }
          : n \in 0 .. MaxBooks }

InitCode ==
  /\ \E map \in CodeLoaders : InitBible(map)
  /\ index = None
  /\ book = NoBook
  /\ call = [op |-> "new_from_map_with_meta"]
  /\ result = None

GetVerseByCodeReference ==
  \E r \in CodeRefArgs :
    /\ call' = [op |-> "get_verse_by_reference", reference |-> r]
    /\ result' = get_verse_by_reference(Self, r)
    /\ UNCHANGED <<bible_vars, index, book>>

NextCode == GetVerseByCodeReference

SpecCode == InitCode /\ [][NextCode]_vars

(***************************************************************************)
(* Claims.                                                                 *)
(***************************************************************************)
\* the canonical codes: the strings as_str returns
CanonicalCodes == { AsStrTable[i][2] : i \in DOMAIN AsStrTable }

\* every key of the loaded mapping is a canonical book code
KeysCanonical == \A i \in DOMAIN loaded : loaded[i].key \in CanonicalCodes

\* the verse addressed by the last get_verse call exists in the loaded mapping,
\* in the entry at position i
Addressed(i) ==
  /\ call.op = "get_verse"
  /\ i \in DOMAIN loaded
  /\ loaded[i].key = as_str(call.book)
  /\ call.chapter \in DOMAIN loaded[i].entry.chapters
  /\ call.verse \in DOMAIN loaded[i].entry.chapters[call.chapter]

LoaderText(i) == loaded[i].entry.chapters[call.chapter][call.verse]

\* C1 as stated: on a Bible loaded from a mapping keyed by canonical codes,
\* get_verse(b, c, v) of every verse present succeeds and returns the verse at
\* position (c, v) of book b, whose number is v and whose text is the loader's
\* text at chapters[c-1][v-1].
C1_RoundTripLoaderText ==
  KeysCanonical =>
    \A i \in DOMAIN loaded :
      Addressed(i) =>
        /\ result.ok
        /\ result.val = books[i].chapters[call.chapter].verses[call.verse]
        /\ result.val.verse_number = call.verse
        /\ result.val.verse_text = LoaderText(i)

\* C1 as amended: the same, the text being the loader's text with every '{'
\* and '}' removed.
C1_RoundTrip ==
  KeysCanonical =>
    \A i \in DOMAIN loaded :
      Addressed(i) =>
        /\ result.ok
        /\ result.val = books[i].chapters[call.chapter].verses[call.verse]
        /\ result.val.verse_number = call.verse
        /\ result.val.verse_text = SelectSeq(LoaderText(i), LAMBDA ch : ch \notin {"{", "}"})

\* C1 witness: the second verse of a chapter of a book of a two-book mapping
\* keyed by canonical codes was fetched, and its loader text holds a brace
C1_Witness ==
  /\ KeysCanonical
  /\ Len(loaded) = 2
  /\ call.op = "get_verse"
  /\ call.verse = 2
  /\ result.ok
  /\ \E i \in DOMAIN loaded :
       Addressed(i) /\ \E k \in DOMAIN LoaderText(i) : LoaderText(i)[k] = "{"

\* the locations of the verses, in books whose abbrev is a canonical code,
\* whose tokenized text contains every term of the tokenized query
Matching(query) ==
  { loc \in UNION { UNION { { <<i, c, j>> : j \in DOMAIN books[i].chapters[c].verses }
                            : c \in DOMAIN books[i].chapters }
                    : i \in DOMAIN books } :
      /\ books[loc[1]].abbrev \in CanonicalCodes
      /\ Range(tokenize(query))
           \subseteq Range(tokenize(books[loc[1]].chapters[loc[2]].verses[loc[3]].verse_text)) }

\* the (identity, chapter, verse) triple of a location
TripleOf(loc) ==
  <<from_str(books[loc[1]].abbrev).val, loc[2],
    books[loc[1]].chapters[loc[2]].verses[loc[3]].verse_number>>

\* C2 as stated: a query with at least one term, put to Bible::search or to an index
\* built by build_search_index, returns exactly the triples of the verses, in
\* books with a canonical code, whose tokens include every query term, each
\* once: none is missing, nothing else is returned, and a term found in no
\* verse empties the result.
C2_ExactAndMatching ==
  (call.op \in {"search", "SearchIndex_search"} /\ tokenize(call.query) # <<>>) =>
    /\ Range(result) = { TripleOf(loc) : loc \in Matching(call.query) }
    /\ \A i, j \in DOMAIN result : i # j => result[i] # result[j]
    /\ (\E t \in Range(tokenize(call.query)) :
          \A loc \in Matching(<<>>) :
            t \notin Range(tokenize(books[loc[1]].chapters[loc[2]].verses[loc[3]].verse_text)))
         => result = <<>>

\* the index the caller obtained once from build_search_index, or the one it
\* would obtain now
BuiltOnce == IF index.some THEN index.val ELSE build_search_index(Self)

\* every Bible::search(q) returned what SearchIndex::search(q) returns on the
\* index built once
SearchAgreesWithIndex ==
  call.op = "search" => result = SearchIndex_search(BuiltOnce, call.query)

\* Bible::search(q) right after Bible::search(q) returns the same vector
SearchTwiceAgrees ==
  (call.op = "search" /\ call'.op = "search" /\ call'.query = call.query) => result' = result

\* C3: every Bible::search(q) returns the vector SearchIndex::search(q)
\* returns on an index built once by build_search_index of the same Bible, and
\* Bible::search(q) called twice in a row returns the same vector both times.
C3_SearchPathsAgree == [](SearchAgreesWithIndex) /\ [][SearchTwiceAgrees]_vars

\* C3 witness: Bible::search answered from its cached index with two or more
\* locations while the caller holds an index built once
C3_Witness ==
  /\ call.op = "search"
  /\ index.some
  /\ search_index.some
  /\ Len(result) >= 2

\* C4: a reference "<token> <c>:<v>", whose token resolves to an identity b
\* and whose <c> and <v> are numerals, gets from get_verse_by_reference
\* exactly the result of get_verse(b, c, v), its verse or its BookNotFound,
\* ChapterOutOfBounds or VerseOutOfBounds error (chapter 0 and verse 0
\* included).
C4_ReferenceDelegates ==
  call.op = "get_verse_by_reference" =>
    \A t \in RefTokens, c \in ChapterArgs, v \in VerseArgs :
      (call.reference = MkRef(t, Numeral(c), Numeral(v)) /\ resolve_book(Self, t).some) =>
        result = get_verse(Self, resolve_book(Self, t).val, c, v)

\* C4 witness: a reference to chapter 0 whose token holds spaces and resolves
\* to a loaded book got the ChapterOutOfBounds error of get_verse
C4_Witness ==
  /\ call.op = "get_verse_by_reference"
  /\ \E t \in RefTokens :
       /\ contains(t, " ")
       /\ resolve_book(Self, t).some
       /\ call.reference = MkRef(t, Numeral(0), Numeral(1))
  /\ ~result.ok
  /\ result.err.kind = "ChapterOutOfBounds"
  /\ result.err.chapter = 0

\* the reference has no ':', or no integer after its last ':', or no space
\* before that, or no integer after the last space, or a book token that
\* resolves to no identity
Malformed(ref) ==
  LET reference == trim(ref)
      colon == rsplit_once(reference, ":")
  IN  \/ ~colon.some
      \/ /\ colon.some
         /\ \/ ~parse_usize(trim(colon.val[2])).some
            \/ LET space == rsplit_once(colon.val[1], " ")
               IN  \/ ~space.some
                   \/ /\ space.some
                      /\ \/ ~parse_usize(trim(space.val[2])).some
                         \/ ~resolve_book(Self, trim(space.val[1])).some

\* C5 as stated: a malformed reference fails with an error of the kind
\* ReferenceParseError, which is none of BookNotFound, ChapterOutOfBounds and
\* VerseOutOfBounds.
C5_ReferenceParseError ==
  (call.op = "get_verse_by_reference" /\ Malformed(call.reference)) =>
    /\ ~result.ok
    /\ result.err.kind = "ReferenceParseError"
    /\ result.err.kind \notin {"BookNotFound", "ChapterOutOfBounds", "VerseOutOfBounds"}

Numbered ==
  LET verses == IF call.op = "Chapter_get_verse"
                THEN book.chapters[call.position].verses
                ELSE book.chapters[call.chapter].verses
  IN  { verses[j] : j \in { k \in DOMAIN verses : verses[k].verse_number = call.verse } }

\* C7 as stated: get_verse(n) on a chapter, of Chapter and through Book,
\* returns a verse whose stored number is n when the chapter has one, and
\* fails (None, VerseOutOfBounds) only when no verse of the chapter carries
\* the number n.
C7_LookupByStoredNumber ==
  /\ call.op = "Chapter_get_verse" =>
       IF Numbered # {} THEN result.some /\ result.val \in Numbered
       ELSE ~result.some
  /\ (call.op = "Book_get_verse" /\ call.chapter \in DOMAIN book.chapters) =>
       IF Numbered # {} THEN result.ok /\ result.val \in Numbered
       ELSE ~result.ok /\ result.err.kind = "VerseOutOfBounds"

\* the loaded books whose abbrev is the canonical code of the identity
LoadedAs(b) == { i \in DOMAIN books : books[i].abbrev = AsStrMatch[b] }

\* C8: Bible::get_verse(b, c, v) gives BookNotFound when b is not loaded,
\* whatever c and v; else ChapterOutOfBounds when c is 0 or beyond the chapter
\* count, whatever v; else VerseOutOfBounds carrying chapter = c, verse = v
\* and max_verse = the verse count of chapter c when no verse v is there; else
\* the verse: one outcome of the four for every input.
C8_GetVerseErrors ==
  call.op = "get_verse" =>
    LET c == call.chapter
        v == call.verse
    IN  IF LoadedAs(call.book) = {}
        THEN ~result.ok /\ result.err.kind = "BookNotFound"
        ELSE LET bk == books[index_by_abbrev[AsStrMatch[call.book]] + 1]
             IN  IF c = 0 \/ c > Len(bk.chapters)
                 THEN ~result.ok /\ result.err.kind = "ChapterOutOfBounds"
                 ELSE IF \A j \in DOMAIN bk.chapters[c].verses :
                           bk.chapters[c].verses[j].verse_number # v
                 THEN /\ ~result.ok
                      /\ result.err.kind = "VerseOutOfBounds"
                      /\ result.err.chapter = c
                      /\ result.err.verse = v
                      /\ result.err.max_verse = Len(bk.chapters[c].verses)
                 ELSE result.ok /\ result.val.verse_number = v

\* C8 witness: a verse beyond the last one of an existing, non-empty chapter
\* of a loaded book was asked for and VerseOutOfBounds came back
C8_Witness ==
  /\ call.op = "get_verse"
  /\ LoadedAs(call.book) # {}
  /\ call.chapter = 2
  /\ ~result.ok
  /\ result.err.kind = "VerseOutOfBounds"
  /\ result.err.max_verse >= 1
  /\ call.verse = result.err.max_verse + 1

\* C9: Bible::get_book(identity) succeeds exactly when index_by_abbrev holds
\* the identity's canonical code, with the book stored at the indexed
\* position; otherwise it fails with BookNotFound whose book_abbrev is the
\* canonical code, whose book_name is the identity's full name and whose
\* translation is the name of the Bible.
C9_GetBook ==
  call.op = "get_book" =>
    LET code == AsStrMatch[call.book]
    IN  IF code \in DOMAIN index_by_abbrev
        THEN result = Ok(books[index_by_abbrev[code] + 1])
        ELSE result = Err(BookNotFound(code, FullNameMatch[call.book], name))

\* C9 witness: get_book of an identity absent from a Bible of two books
\* failed with BookNotFound
C9_Witness ==
  /\ call.op = "get_book"
  /\ Len(books) = 2
  /\ AsStrMatch[call.book] \notin DOMAIN index_by_abbrev
  /\ ~result.ok
  /\ result.err.kind = "BookNotFound"
  /\ result.err.book_name # result.err.book_abbrev

\* the ASCII-case variants of a string: every letter in either case
CaseVariants(s) ==
  { [i \in DOMAIN s |-> IF i \in U THEN to_ascii_uppercase_char(s[i])
                        ELSE to_ascii_lowercase_char(s[i])] : U \in SUBSET DOMAIN s }

\* C10: get_book_by_abbrev(s) returns, for every ASCII-case variant of s, the
\* same book or the same BookNotFound error; on a miss book_abbrev is the
\* lowercased s and book_name is the full name of the identity whose canonical
\* code the lowercased s is, or the lowercased s itself when it is no
\* canonical code.
C10_AbbrevCaseInsensitive ==
  call.op = "get_book_by_abbrev" =>
    LET lower == to_ascii_lowercase(call.abbrev)
    IN  /\ \A t \in CaseVariants(call.abbrev) : get_book_by_abbrev(Self, t) = result
        /\ ~result.ok =>
             /\ result.err.kind = "BookNotFound"
             /\ result.err.book_abbrev = lower
             /\ result.err.translation = name
             /\ \A b \in BibleBooks : AsStrMatch[b] = lower => result.err.book_name = FullNameMatch[b]
             /\ lower \notin CanonicalCodes => result.err.book_name = lower

\* C10 witness: a mixed-case abbreviation found a loaded book
C10_Witness ==
  /\ call.op = "get_book_by_abbrev"
  /\ call.abbrev \notin {to_ascii_lowercase(call.abbrev), to_ascii_uppercase(call.abbrev)}
  /\ result.ok
  /\ result.val.abbrev = to_ascii_lowercase(call.abbrev)

\* the books are the entries of the loaded mapping in its order, each with the
\* lowercased key as abbrev and the entry's name as title, the chapters and
\* verses numbered 1, 2, ... by position, every verse text being Text applied
\* to the loader's text at that position
BuiltInOrder(Text(_)) ==
  /\ Len(books) = Len(loaded)
  /\ \A i \in DOMAIN loaded :
       /\ books[i].abbrev = to_ascii_lowercase(loaded[i].key)
       /\ books[i].title = loaded[i].entry.name
       /\ Len(books[i].chapters) = Len(loaded[i].entry.chapters)
       /\ \A c \in DOMAIN loaded[i].entry.chapters :
            /\ books[i].chapters[c].chapter_number = c
            /\ Len(books[i].chapters[c].verses) = Len(loaded[i].entry.chapters[c])
            /\ \A j \in DOMAIN loaded[i].entry.chapters[c] :
                 /\ books[i].chapters[c].verses[j].verse_number = j
                 /\ books[i].chapters[c].verses[j].verse_text
                      = Text(loaded[i].entry.chapters[c][j])

\* C11 as stated: new_from_map_with_meta keeps the books in the order of the
\* input mapping, gives each the lowercased key as abbrev and the input name
\* as title, numbers the chapter at position i with i+1 and the verse at
\* position j with j+1, and every verse has the input text at its position.
C11_ConstructionKeepsText == BuiltInOrder(LAMBDA t : t)

\* C11 as amended: the same, every verse having the input text at its position
\* with every '{' and '}' removed.
C11_Construction ==
  BuiltInOrder(LAMBDA t : SelectSeq(t, LAMBDA ch : ch \notin {"{", "}"}))

\* C11 witness: a Bible just built from a mapping of two books whose first key
\* is not lowercase and whose first book has two chapters, a text with a brace
\* among them
C11_Witness ==
  /\ call.op = "new_from_map_with_meta"
  /\ Len(books) = 2
  /\ loaded[1].key # to_ascii_lowercase(loaded[1].key)
  /\ Len(books[1].chapters) = 2
  /\ \E c \in DOMAIN loaded[1].entry.chapters :
       \E j \in DOMAIN loaded[1].entry.chapters[c] :
         books[1].chapters[c].verses[j].verse_text # loaded[1].entry.chapters[c][j]

\* C12: identities and canonical codes are in bijection over the 83
\* identities: from_str(as_str(b)) = b, different identities have different
\* codes, every code is lowercase; from_str(s) succeeds exactly when the
\* lowercased s is one of the 83 codes (so in any letter case, and not for ""
\* and "xyz"), and then as_str of the identity found is the lowercased s.
C12_CodeBijection ==
  /\ Cardinality(BibleBooks) = 83
  /\ Cardinality(CanonicalCodes) = 83
  /\ call.op = "as_str" =>
       /\ from_str(result) = Ok(call.book)
       /\ result = to_ascii_lowercase(result)
       /\ \A b \in BibleBooks \ {call.book} : as_str(b) # result
  /\ call.op = "from_str" =>
       /\ result.ok <=> to_ascii_lowercase(call.s) \in CanonicalCodes
       /\ result.ok => as_str(result.val) = to_ascii_lowercase(call.s)
       /\ call.s \in {<<>>, <<"x","y","z">>} => ~result.ok

\* C12 witness: from_str found the identity of a code written in upper case
C12_Witness ==
  /\ call.op = "from_str"
  /\ call.s # to_ascii_lowercase(call.s)
  /\ result.ok
  /\ as_str(result.val) = to_ascii_lowercase(call.s)

\* the positions of the alias table whose key is the lowercased token
AliasHits(token) ==
  { i \in DOMAIN ALT_ABBREVS : ALT_ABBREVS[i][1] = to_ascii_lowercase(token) }

\* the loaded books whose title is the token, letter case aside
TitleHits(token) ==
  { i \in DOMAIN books : to_ascii_lowercase(books[i].title) = to_ascii_lowercase(token) }

\* the book token, chapter and verse of the reference "<token> <c>:<v>" last
\* looked up
RefParts ==
  IF call.op # "get_verse_by_reference" THEN {}
  ELSE { p \in RefTokens \X ChapterArgs \X VerseArgs :
           call.reference = MkRef(p[1], Numeral(p[2]), Numeral(p[3])) }

\* C13: the book token of a reference resolves to the identity of the first
\* entry of ALT_ABBREVS, in declaration order, whose key is the lowercased
\* token; with no such entry to the identity whose canonical code it is; and
\* with neither, and no loaded title equal to it, to nothing. So "jn" in any
\* letter case is John, and "Jn 3:16" addresses John 3:16.
C13_AliasFirstMatch ==
  /\ \A p \in RefParts :
       LET lower == to_ascii_lowercase(p[1])
           hits == AliasHits(p[1])
       IN  /\ \A i \in hits :
                (\A j \in hits : i <= j) =>
                  result = get_verse(Self, ALT_ABBREVS[i][2], p[2], p[3])
           /\ hits = {} =>
                /\ \A b \in BibleBooks :
                     AsStrMatch[b] = lower => result = get_verse(Self, b, p[2], p[3])
                /\ (lower \notin CanonicalCodes /\ TitleHits(p[1]) = {}) =>
                     result = Err(BookNotFound(lower, p[1], name))
           /\ lower = <<"j","n">> => result = get_verse(Self, "John", p[2], p[3])
  /\ (call.op = "get_verse_by_reference" /\ call.reference \in LongRefs) =>
       result = get_verse(Self, "John", 3, 16)

\* C13 witness: "JN 1:1" found the first verse of a loaded John
C13_Witness ==
  /\ \E p \in RefParts : p[1] = <<"J","N">> /\ p[2] = 1 /\ p[3] = 1
  /\ result.ok
  /\ \E i \in DOMAIN books :
       books[i].abbrev = <<"j","o">> /\ result.val = books[i].chapters[1].verses[1]

\* the reference "<token> <c>:<v>" with pad[1] before the token, pad[2] before
\* and pad[3] after the chapter number, pad[4] before and pad[5] after the
\* verse number
PaddedRef(token, c, v, pad) ==
  pad[1] \o token \o <<" ">> \o pad[2] \o c \o pad[3] \o <<":">> \o pad[4] \o v \o pad[5]

Pads == [1 .. 5 -> {<<>>, <<" ">>}]

\* C14 as stated: a reference that resolves gets the same result with extra
\* spaces before or after the book token, before or after the chapter number
\* (between that number and the ':' included) and before or after the verse
\* number.
C14_WhitespaceInsensitive ==
  call.op = "get_verse_by_reference" =>
    \A t \in RefTokens, c \in ChapterArgs, v \in VerseArgs, pad \in Pads :
      ( /\ call.reference = PaddedRef(t, Numeral(c), Numeral(v), pad)
        /\ get_verse_by_reference(Self, MkRef(t, Numeral(c), Numeral(v))).ok ) =>
          result = get_verse_by_reference(Self, MkRef(t, Numeral(c), Numeral(v)))

\* the references "<token> <c>:<v>" last looked up whose token is neither a
\* key of the alias table nor a canonical code
TitleRefParts ==
  { p \in RefParts :
      AliasHits(p[1]) = {} /\ to_ascii_lowercase(p[1]) \notin CanonicalCodes }

\* C15 as stated: a book token, spaces inside it included, that is neither an
\* alias nor a canonical code resolves to identity b whenever it is, letter
\* case aside, the title of any loaded book whose abbrev is the canonical code
\* of b, and fails to resolve only when no loaded book with that title has a
\* canonical abbrev.
C15_TitleOfAnyBook ==
  \A p \in TitleRefParts :
    /\ \A i \in TitleHits(p[1]) :
         books[i].abbrev \in CanonicalCodes =>
           result = get_verse(Self, from_str(books[i].abbrev).val, p[2], p[3])
    /\ (\A i \in TitleHits(p[1]) : books[i].abbrev \notin CanonicalCodes) =>
         result = Err(BookNotFound(to_ascii_lowercase(p[1]), p[1], name))

\* C15 as amended: such a token resolves by the first loaded book, in load
\* order, whose title it is, letter case aside: to the identity b when the
\* abbrev of that book is the canonical code of b, and to nothing when that
\* abbrev is no canonical code or no loaded book has the title.
C15_TitleOfFirstBook ==
  \A p \in TitleRefParts :
    LET hits == TitleHits(p[1])
    IN  /\ \A i \in hits :
             ((\A j \in hits : i <= j) /\ books[i].abbrev \in CanonicalCodes) =>
               result = get_verse(Self, from_str(books[i].abbrev).val, p[2], p[3])
        /\ (\A i \in hits : (\A j \in hits : i <= j) => books[i].abbrev \notin CanonicalCodes) =>
             result = Err(BookNotFound(to_ascii_lowercase(p[1]), p[1], name))

\* C15 witness: a token with spaces inside found a verse through the title of
\* the first of two loaded books with that title, the second having no
\* canonical abbrev
C15_Witness ==
  /\ \E p \in TitleRefParts : contains(p[1], " ") /\ TitleHits(p[1]) = {1, 2}
  /\ books[2].abbrev \notin CanonicalCodes
  /\ result.ok

\* the order of (book as usize, chapter, verse) keys, strict
Before(x, y) ==
  \/ Discriminant[x[1]] < Discriminant[y[1]]
  \/ Discriminant[x[1]] = Discriminant[y[1]] /\ x[2] < y[2]
  \/ Discriminant[x[1]] = Discriminant[y[1]] /\ x[2] = y[2] /\ x[3] < y[3]

StrictlyAscending(v) == \A i \in 1 .. Len(v) - 1 : Before(v[i], v[i + 1])

\* C16: every vector returned by Bible::search or SearchIndex::search is
\* strictly ascending by (ordinal of the book in the enum, chapter, verse), so
\* it holds no location twice, and a Genesis location stands before every John
\* location.
C16_ResultAscending ==
  call.op \in {"search", "SearchIndex_search"} =>
    /\ StrictlyAscending(result)
    /\ \A i, j \in DOMAIN result :
         (result[i][1] = "Genesis" /\ result[j][1] = "John") => i < j

\* C16 witness: a search of a Bible that holds John before Genesis returned a
\* Genesis location first and a John location last
C16_Witness ==
  /\ call.op = "search"
  /\ Len(books) >= 2
  /\ books[1].abbrev = <<"j","o">>
  /\ result # <<>>
  /\ result[1][1] = "Genesis"
  /\ result[Len(result)][1] = "John"

\* further queries, made of the terms of Queries in another order or repeated
MoreQueries ==
  { <<"t","h","e">>,
    <<"t","h","e"," ","i","n"," ","T","h","e">>,
    <<"b","e","g","i","n","n","i","n","g"," ","s","a","i","d"," ","s","a","i","d">> }

\* the queries whose tokenization holds the same set of terms
SameTerms(query) ==
  { q \in Queries \cup MoreQueries : Range(tokenize(q)) = Range(tokenize(query)) }

\* C17: two queries whose tokenizations hold the same set of terms, in any
\* order and with any repetition, get the identical vector from
\* SearchIndex::search on one index and from Bible::search on one Bible.
C17_TermOrderIrrelevant ==
  /\ call.op = "SearchIndex_search" =>
       \A q \in SameTerms(call.query) : SearchIndex_search(index.val, q) = result
  /\ call.op = "search" =>
       \A q \in SameTerms(call.query) : search(Self, q).ret = result

\* C17 witness: a query of two terms, written in the other order in another
\* query, found a verse
C17_Witness ==
  /\ call.op = "SearchIndex_search"
  /\ Len(tokenize(call.query)) = 2
  /\ \E q \in SameTerms(call.query) : tokenize(q) # tokenize(call.query)
  /\ result # <<>>

\* the locations of the verses of the books with a canonical code
Locations ==
  UNION { UNION { { <<i, c, j>> : j \in DOMAIN books[i].chapters[c].verses }
                  : c \in DOMAIN books[i].chapters }
          : i \in { k \in DOMAIN books : books[k].abbrev \in CanonicalCodes } }

\* the words of the verse at a location as they are written, split at the
\* characters that are neither ASCII letters nor ASCII digits
WordsAt(loc) ==
  Range(split_non_alnum(books[loc[1]].chapters[loc[2]].verses[loc[3]].verse_text, <<>>))
    \ {<<>>}

\* C18: Bible::search and SearchIndex::search return for the uppercased query
\* the vector they return for the query, and a verse whose text holds every
\* query term as a word, in whatever letter case, is among the results.
C18_CaseInsensitive ==
  /\ call.op = "SearchIndex_search" =>
       SearchIndex_search(index.val, to_ascii_uppercase(call.query)) = result
  /\ call.op = "search" => search(Self, to_ascii_uppercase(call.query)).ret = result
  /\ (call.op \in {"search", "SearchIndex_search"} /\ tokenize(call.query) # <<>>) =>
       \A loc \in Locations :
         (\A t \in Range(tokenize(call.query)) :
            \E w \in WordsAt(loc) : to_ascii_uppercase(w) = to_ascii_uppercase(t))
           => TripleOf(loc) \in Range(result)

\* C18 witness: a query written partly in upper case found a verse that holds
\* one of its terms in another letter case
C18_Witness ==
  /\ call.op = "search"
  /\ call.query # to_ascii_lowercase(call.query)
  /\ \E loc \in Locations :
       /\ TripleOf(loc) \in Range(result)
       /\ \E t \in Range(split_non_alnum(call.query, <<>>)) \ {<<>>} :
            /\ t \notin WordsAt(loc)
            /\ \E w \in WordsAt(loc) : to_ascii_uppercase(w) = to_ascii_uppercase(t)

\* the string holds no ASCII letter and no ASCII digit
NoTerms(query) == \A i \in DOMAIN query : ~is_ascii_alphanumeric(query[i])

\* C19: Bible::search and SearchIndex::search return the empty vector for the
\* empty string, for a string of whitespace and for every string without an
\* ASCII letter or digit.
C19_NoTermsEmpty ==
  (call.op \in {"search", "SearchIndex_search"} /\ NoTerms(call.query)) => result = <<>>

\* C19 witness: a query of punctuation alone, put to a Bible whose index holds
\* terms, returned the empty vector
C19_Witness ==
  /\ call.op = "search"
  /\ call.query # <<>>
  /\ NoTerms(call.query)
  /\ \A i \in DOMAIN call.query : ~is_whitespace(call.query[i])
  /\ search_index.some
  /\ DOMAIN search_index.val # {}
  /\ result = <<>>

\* the indexes built so far: the one of the caller and the one Bible::search
\* cached
BuiltIndexes ==
  { x.val : x \in { y \in {index, search_index} : y.some } }

\* C20: in an index built by build_search_index the posting list of every
\* term is strictly ascending by (book ordinal, chapter, verse), so it holds a
\* location once even when the term stands several times in the verse; and a
\* location is in the list of a term exactly when the term is a token of the
\* text of a verse at that location.
C20_PostingLists ==
  \A idx \in BuiltIndexes :
    /\ DOMAIN idx
         = UNION { Range(tokenize(books[loc[1]].chapters[loc[2]].verses[loc[3]].verse_text))
                   : loc \in Locations }
    /\ \A term \in DOMAIN idx :
         /\ StrictlyAscending(idx[term])
         /\ Range(idx[term])
              = { TripleOf(loc) : loc \in
                    { l \in Locations :
                        term \in Range(tokenize(
                          books[l[1]].chapters[l[2]].verses[l[3]].verse_text)) } }

\* C20 witness: build_search_index returned an index of a Bible in which a
\* verse holds one term twice
C20_Witness ==
  /\ call.op = "build_search_index"
  /\ index.some
  /\ \E loc \in Locations :
       LET tokens == tokenize(books[loc[1]].chapters[loc[2]].verses[loc[3]].verse_text)
       IN  \E i, j \in DOMAIN tokens :
             i # j /\ tokens[i] = tokens[j] /\ TripleOf(loc) \in Range(index.val[tokens[i]])

\* the Bible without the books whose abbrev from_str rejects, its index not
\* built
OnlyCanonical ==
  [Self EXCEPT !.books = SelectSeq(books, LAMBDA b : from_str(b.abbrev).ok),
               !.search_index = None]

\* no verse of a book whose abbrev is not a canonical code is in a posting
\* list or in a search result: the indexes built, and the vector search
\* returns, are those of the Bible without these books
ExcludedFromSearch ==
  /\ \A idx \in BuiltIndexes : idx = build_search_index(OnlyCanonical)
  /\ call.op = "search" => result = search(OnlyCanonical, call.query).ret

\* get_book_by_abbrev returns every book whose abbrev is not a canonical code
\* when it is given that abbrev
StaysAddressable ==
  \A i \in DOMAIN books :
    ~from_str(books[i].abbrev).ok =>
      get_book_by_abbrev(Self, books[i].abbrev) = Ok(books[i])

\* C21: a book whose abbrev is not a canonical code is excluded from search
\* (no verse of it is in a posting list or a search result) and stays
\* addressable: get_book_by_abbrev(its abbrev) returns the book with its
\* chapters and verses. Stated of the Bible a search has been put to.
C21_ExcludedButAddressable ==
  call.op = "search" => (ExcludedFromSearch /\ StaysAddressable)

\* the abbrevs of the books are pairwise different
AbbrevsDistinct ==
  \A i, j \in DOMAIN books : i # j => books[i].abbrev # books[j].abbrev

\* the books with a non-canonical abbrev stay addressable when no two books
\* share an abbrev
AddressableWhenDistinct == AbbrevsDistinct => StaysAddressable

\* the ASCII letters and digits
AsciiAlnum == Range(UpperSeq) \cup Range(LowerSeq) \cup Range(DigitSeq)

\* the positions at which a maximal run of ASCII letters and digits starts
RunStarts(text) ==
  { i \in DOMAIN text : text[i] \in AsciiAlnum /\ (i = 1 \/ text[i - 1] \notin AsciiAlnum) }

\* the position at which the run starting at i ends
RunEnd(text, i) ==
  CHOOSE j \in i .. Len(text) :
    /\ \A k \in i .. j : text[k] \in AsciiAlnum
    /\ j = Len(text) \/ text[j + 1] \notin AsciiAlnum

\* the k-th run of the text, in text order
Run(text, k) ==
  LET start == CHOOSE i \in RunStarts(text) :
                 Cardinality({ j \in RunStarts(text) : j <= i }) = k
  IN  SubSeq(text, start, RunEnd(text, start))

\* C22: tokenize(text) is the sequence of the maximal runs of ASCII letters
\* and digits of the text, in text order, each in lower case: every token is
\* non-empty and made of a-z and 0-9 only, every other character (a letter
\* outside ASCII as well) separates, a run of separators gives no empty
\* token, and the text alone determines the result.
C22_TokenizeRuns ==
  call.op = "tokenize" =>
    /\ Len(result) = Cardinality(RunStarts(call.text))
    /\ \A k \in DOMAIN result :
         /\ result[k] = to_ascii_lowercase(Run(call.text, k))
         /\ result[k] # <<>>
         /\ \A i \in DOMAIN result[k] : result[k][i] \in Range(LowerSeq) \cup Range(DigitSeq)
    /\ result = tokenize(call.text)

\* C22 witness: a text in which an upper-case letter and a digit are parted by
\* two separators, one of them a letter outside ASCII, gave two tokens
C22_Witness ==
  /\ call.op = "tokenize"
  /\ call.text = <<"B", "-", "é", "7">>
  /\ result = << <<"b">>, <<"7">> >>

\* the number of builds the callers in S have executed
RECURSIVE BuildsOf(_)
BuildsOf(S) ==
  IF S = {} THEN 0
  ELSE LET c == CHOOSE x \in S : TRUE IN call[c].builds + BuildsOf(S \ {c})

\* C23: however the callers of Bible::search on one Bible are interleaved, at
\* most one build of the index executes, the cached index is the whole index
\* of the Bible (never a part of it, never another one), and every caller
\* whose call returned was answered from that one index.
C23_SingleBuild ==
  /\ BuildsOf(Callers) <= 1
  /\ search_index.some => search_index.val = build_search_index(Self)
  /\ \A c \in Callers :
       (call[c].pc = "returned" /\ call[c].query # <<>>) =>
         /\ search_index.some
         /\ result[c] = Some(SearchIndex_search(search_index.val, call[c].query))

\* C23 witness: two callers searched a Bible that was not yet built; one of
\* them built the index, the other was answered from it with a location
C23_Witness ==
  /\ call[1].pc = "returned" /\ call[1].builds = 1
  /\ call[2].pc = "returned" /\ call[2].builds = 0
  /\ result[2].some /\ result[2].val # <<>>
  /\ search_index.some

\* once built, the cached index is what it was
BuiltStays == search_index.some => search_index' = search_index

\* the cached index changes only from not built to built, and only in a
\* Bible::search call
BuildOnlyBySearch ==
  search_index' # search_index =>
    /\ ~search_index.some
    /\ search_index'.some
    /\ call'.op = "search"

\* C24: a freshly constructed Bible is not built; over every sequence of
\* calls the cached index goes from not built to built at most once and never
\* back, so it is built at most once, and once built no later search modifies
\* or replaces it.
C24_TwoStateLifecycle ==
  /\ ~search_index.some
  /\ [][BuiltStays /\ BuildOnlyBySearch]_vars

\* C24 witness: a search that found nothing was answered by a Bible whose
\* cached index is built and holds terms
C24_Witness ==
  /\ call.op = "search"
  /\ call.query = <<"z","z">>
  /\ search_index.some
  /\ DOMAIN search_index.val # {}
  /\ result = <<>>

\* books, index_by_abbrev and the metadata strings are left as they were
CorpusUnchanged == UNCHANGED <<books, index_by_abbrev, id, name, description, language>>

\* the cached search index changes in a Bible::search call only
IndexChangedBySearchOnly == search_index' # search_index => call'.op = "search"

\* C25: no call of get_book, get_book_by_abbrev, get_verses, get_verse,
\* get_verse_by_reference, build_search_index or search, whether it succeeds
\* or fails, changes books, index_by_abbrev or the metadata strings; the only
\* field of the Bible a call changes is the cached search index, and only
\* Bible::search changes it.
C25_CorpusReadOnly == [][CorpusUnchanged /\ IndexChangedBySearchOnly]_vars

\* C25 witness: a lookup failed on a Bible that holds books and whose index a
\* search had built before
C25_Witness ==
  /\ call.op \in {"get_verse", "get_verse_by_reference"}
  /\ ~result.ok
  /\ books # <<>>
  /\ search_index.some
  /\ index.some

\* the location resolves through get_verse to a verse whose tokens hold every
\* term of the query
Resolves(loc, query) ==
  LET r == get_verse(Self, loc[1], loc[2], loc[3])
  IN  /\ r.ok
      /\ Range(tokenize(query)) \subseteq Range(tokenize(r.val.verse_text))

\* C26: every location (b, c, v) that search returns resolves through
\* get_verse(b, c, v) to an existing verse, and the tokens of the text of
\* that verse hold every term of the query.
C26_ResultsAddressable ==
  call.op = "search" => \A k \in DOMAIN result : Resolves(result[k], call.query)

\* the same of a Bible in which no two books share an abbrev
ResultsAddressableWhenDistinct == AbbrevsDistinct => C26_ResultsAddressable

\* the book token, chapter and verse of the reference "<code> <c>:<v>" last
\* looked up
CodeRefParts ==
  IF call.op # "get_verse_by_reference" THEN {}
  ELSE { p \in CodeTokens \X ChapterArgs \X VerseArgs :
           call.reference = MkRef(p[1], Numeral(p[2]), Numeral(p[3])) }

\* on the Bible as constructed, resolve_book(as_str(b)) is b for every
\* identity b outside Except
ResolvesOwnCode(Except) ==
  call.op = "new_from_map_with_meta" =>
    \A b \in BibleBooks \ Except : resolve_book(Self, as_str(b)) = Some(b)

\* a reference whose book token is a canonical code outside ExceptCodes that
\* get_book_by_abbrev maps to a loaded book returned what get_verse of that
\* book returns
CodeReferenceAgrees(ExceptCodes) ==
  \A p \in CodeRefParts :
    LET found == get_book_by_abbrev(Self, p[1])
    IN  (to_ascii_lowercase(p[1]) \in CanonicalCodes \ ExceptCodes /\ found.ok) =>
          result = Book_get_verse(found.val, p[2], p[3])

\* C27 as stated: resolve_book(as_str(b)) = b for every book identity b, so
\* for every canonical code k that get_book_by_abbrev(k) maps to a loaded
\* book B, get_verse_by_reference("k c:v") returns what B.get_verse(c, v)
\* returns.
C27_CodesAgree == ResolvesOwnCode({}) /\ CodeReferenceAgrees({})

\* C27 as amended: the same for every identity but Jonah and Judges, whose
\* codes "jn" and "jud" are keys of the alias table and resolve to John and
\* to Jude; a reference with one of these two codes returns what get_verse of
\* John or of Jude returns.
C27_CodesAgreeButAliased ==
  /\ ResolvesOwnCode({"Jonah", "Judges"})
  /\ CodeReferenceAgrees({ <<"j","n">>, <<"j","u","d">> })
  /\ call.op = "new_from_map_with_meta" =>
       /\ resolve_book(Self, as_str("Jonah")) = Some("John")
       /\ resolve_book(Self, as_str("Judges")) = Some("Jude")
  /\ \A p \in CodeRefParts :
       /\ to_ascii_lowercase(p[1]) = <<"j","n">> => result = get_verse(Self, "John", p[2], p[3])
       /\ to_ascii_lowercase(p[1]) = <<"j","u","d">> => result = get_verse(Self, "Jude", p[2], p[3])

\* C27 witness: "gn 1:2" returned the second verse of the loaded Genesis
\* while a Jonah is loaded under "jn"
C27_Witness ==
  /\ \E p \in CodeRefParts : p[1] = <<"g","n">> /\ p[2] = 1 /\ p[3] = 2
  /\ result.ok
  /\ \E i, j \in DOMAIN books :
       /\ books[i].abbrev = <<"g","n">>
       /\ result.val = books[i].chapters[1].verses[2]
       /\ books[j].abbrev = <<"j","n">>

\* C28: after new_from_map_with_meta on any ordered mapping, raw keys that
\* differ only in letter case included, index_by_abbrev holds for the abbrev
\* of the book at every position that position, so get_book_by_abbrev(its
\* own abbrev) returns every book of books(), and every indexed position is
\* within the bounds of books. (Positions count from 0, as in the Vec.)
C28_FaithfulIndex ==
  /\ \A i \in DOMAIN books :
       /\ books[i].abbrev \in DOMAIN index_by_abbrev
       /\ index_by_abbrev[books[i].abbrev] = i - 1
       /\ get_book_by_abbrev(Self, books[i].abbrev) = Ok(books[i])
  /\ \A k \in DOMAIN index_by_abbrev : index_by_abbrev[k] \in 0 .. Len(books) - 1

\* the same of a mapping no two keys of which differ only in letter case
FaithfulIndexWhenDistinct == AbbrevsDistinct => C28_FaithfulIndex

\* Bible::search("") returns the empty vector and leaves the cached index as
\* it was: not built if it was not built
EmptyQueryLeavesCache ==
  (call'.op = "search" /\ call'.query = <<>>) =>
    (search_index' = search_index /\ result' = <<>>)

\* build_search_index() returns the index of the Bible and leaves the cached
\* index as it was
BuildLeavesCache ==
  call'.op = "build_search_index" =>
    (search_index' = search_index /\ result' = build_search_index(Self))

\* Bible::search of a non-empty query leaves the cached index built
NonEmptyQueryBuilds ==
  (call'.op = "search" /\ call'.query # <<>>) => search_index'.some

\* the cached index is set by a Bible::search of a non-empty query only
CacheSetByNonEmptyQuery ==
  search_index' # search_index => (call'.op = "search" /\ call'.query # <<>>)

\* C29: the cache is populated only by a Bible::search call whose query is
\* non-empty: search("") returns without building and leaves the state as it
\* was, build_search_index() returns a fresh index and leaves the cached
\* state as it was, and a non-empty query, even one of whitespace that holds
\* no term, leaves the state built.
C29_CachePopulation ==
  [][EmptyQueryLeavesCache /\ BuildLeavesCache /\ NonEmptyQueryBuilds
       /\ CacheSetByNonEmptyQuery]_vars

\* C29 witness: after the caller built an index of its own, a search of " "
\* returned nothing and left the cached index built
C29_Witness ==
  /\ call.op = "search"
  /\ call.query = <<" ">>
  /\ index.some
  /\ search_index.some
  /\ result = <<>>

Braces == {"{", "}"}

\* the positions of the text that hold no brace
Kept(text) == { i \in DOMAIN text : text[i] \notin Braces }

\* the k-th of these positions
KeptAt(text, k) ==
  CHOOSE i \in Kept(text) : Cardinality({ j \in Kept(text) : j <= i }) = k

\* C30: the text Verse::new stores is the input text with every '{' and
\* every '}' removed and every other character kept in its order, so it
\* holds no brace, and sanitizing it again changes nothing.
C30_Sanitized ==
  call.op = "Verse_new" =>
    LET stored == result.verse_text
    IN  /\ Len(stored) = Cardinality(Kept(call.text))
        /\ \A k \in DOMAIN stored : stored[k] = call.text[KeptAt(call.text, k)]
        /\ \A k \in DOMAIN stored : stored[k] \notin Braces
        /\ sanitize_verse_text(stored) = stored
        /\ Verse_new(stored, result.verse_number) = result

\* C30 witness: Verse::new stored "aB" for the text "{a}B"
C30_Witness ==
  /\ call.op = "Verse_new"
  /\ call.text = <<"{", "a", "}", "B">>
  /\ result.verse_text = <<"a", "B">>
==============================================================================
